---------------------------- MODULE Spec2Model ----------------------------
(***************************************************************************)
(* SerialMonitor: the serial line reader (worker thread, start trigger,    *)
(* cooperative stop), the column-schema parser and the session controller  *)
(* that polls the reader once per frame.                                   *)
(*                                                                         *)
(* Text is a sequence of one-character strings.  Time is an integer number *)
(* of 100 ms units (Duration and the f64 seconds derived from it are both  *)
(* represented by that number; f64 rounding is not represented).           *)
(***************************************************************************)
EXTENDS Integers, Sequences, FiniteSets, TLC

(***************************************************************************)
(* Bounds of the model.                                                    *)
(***************************************************************************)
\* the device delivers at most MaxBytes bytes in a run, then stays silent
MaxBytes == 4
\* no record is longer than MaxLine characters (newline excluded)
MaxLine == 3
\* the elapsed time of a session is followed up to MaxT units (of 100 ms)
MaxT == 18
\* the device reads of the worker are counted up to one more than this after a stop
StopReadBound == 2
\* the plots in the list at most, and the ids handed out at most
MaxPlots == 2
MaxPlotId == 2

(***************************************************************************)
(* Bytes and device read outcomes.                                         *)
(***************************************************************************)
LF == "\n"
\* a byte >= 0x80: not ASCII text
HiByte == "0xFF"
Whitespace == {" ", "\r"}
Digits == {"1"}
\* port.read returned Ok(0)
ReadZero == "Ok(0)"
\* port.read returned Err (an I/O failure; a read timeout is one)
ReadFail == "Err(io)"

Bytes == {"1", ",", "x", " ", HiByte, LF}
ReadOutcomes == Bytes \cup {ReadZero, ReadFail}
FaultOutcomes == {ReadZero, ReadFail, HiByte}

(***************************************************************************)
(* Option and Result values.                                               *)
(***************************************************************************)
None == [tag |-> "None"]
OkLine(t, content) == [tag |-> "Ok", t |-> t, content |-> content]
ReadError(e) == [tag |-> "Err", e |-> e]
OkN(n) == [tag |-> "Ok", n |-> n]
ErrS(e) == [tag |-> "Err", e |-> e]

Immediate == [mode |-> "Immediate"]
Delay(d) == [mode |-> "Delay", delay |-> d]
Message(m) == [mode |-> "Message", msg |-> m]

(***************************************************************************)
(* str::trim and str::ends_with.                                           *)
(***************************************************************************)
RECURSIVE TrimStart(_)
TrimStart(s) ==
    IF s # <<>> /\ Head(s) \in Whitespace THEN TrimStart(Tail(s)) ELSE s

RECURSIVE TrimEnd(_)
TrimEnd(s) ==
    IF s # <<>> /\ s[Len(s)] \in Whitespace
    THEN TrimEnd(SubSeq(s, 1, Len(s) - 1))
    ELSE s

Trim(s) == TrimEnd(TrimStart(s))

EndsWith(s, m) ==
    /\ Len(m) <= Len(s)
    /\ SubSeq(s, Len(s) - Len(m) + 1, Len(s)) = m

(***************************************************************************)
(* SerialParser::parse_values: split on commas, trim each field, keep the  *)
(* fields that parse as a number.                                          *)
(***************************************************************************)
RECURSIVE SplitComma(_, _)
SplitComma(s, field) ==
    IF s = <<>> THEN <<field>>
    ELSE IF Head(s) = "," THEN <<field>> \o SplitComma(Tail(s), <<>>)
    ELSE SplitComma(Tail(s), Append(field, Head(s)))

RECURSIVE DecimalValue(_)
DecimalValue(f) ==
    IF f = <<>> THEN 0
    ELSE 10 * DecimalValue(SubSeq(f, 1, Len(f) - 1))
         + (IF f[Len(f)] = "1" THEN 1 ELSE 0)

\* str::parse::<f64> on the model's characters: a non-empty run of digits
ParseF64(f) ==
    IF f # <<>> /\ \A i \in 1..Len(f) : f[i] \in Digits
    THEN OkN(DecimalValue(f))
    ELSE ErrS("invalid float literal")

RECURSIVE ParsedFields(_)
ParsedFields(fields) ==
    IF fields = <<>> THEN <<>>
    ELSE LET v == ParseF64(Trim(Head(fields)))
         IN  (IF v.tag = "Ok" THEN <<v.n>> ELSE <<>>) \o ParsedFields(Tail(fields))

ColumnMismatch(expected, actual) ==
    [tag |-> "Err", e |-> <<"ColumnMismatch", expected, actual>>]
OkValues(res) == [tag |-> "Ok", values |-> res]

\* the mutant of parse_values that adopts every line's width as the schema
ParseValuesAdoptAlways(self_columns, line) ==
    LET res == ParsedFields(SplitComma(line, <<>>))
    IN  [result |-> OkValues(res), columns |-> Len(res)]

\* the mutant of parse_values that stores the width of a mismatching line
ParseValuesMismatchAdopts(self_columns, line) ==
    LET res == ParsedFields(SplitComma(line, <<>>))
        actual == Len(res)
    IN  IF self_columns # 0 /\ self_columns # actual
        THEN [result |-> ColumnMismatch(self_columns, actual), columns |-> actual]
        ELSE [result |-> OkValues(res), columns |-> actual]

\* parse_values(&mut self, line): the result and the parser's columns afterwards
ParseValues(self_columns, line) ==
    LET res == ParsedFields(SplitComma(line, <<>>))
        actual == Len(res)
    IN  IF self_columns # 0 /\ self_columns # actual
        THEN [result |-> ColumnMismatch(self_columns, actual),
              columns |-> self_columns]
        ELSE [result |-> OkValues(res), columns |-> actual]

(***************************************************************************)
(* State.                                                                  *)
(***************************************************************************)
VARIABLES
    \* SerialMonitorApp
    reader,             \* app.reader: "None" or "Some"
    columns,            \* app.parser.columns
    values,             \* app.values: per series, the samples <<t, v>>
    console,            \* app.lines: the console log, entries <<t, content>>
    paused,             \* app.paused
    inp_slots,          \* app.data.inp_slots: the slots' indices
    notification,       \* ui.notification (errors, infos)
    minor_notification, \* ui.minor_notification (warnings)
    pc,                 \* where the controller thread is
    err,                \* read_input's local err
    \* SerialReader (of app.reader)
    port,               \* who holds the device handle: "None", "reader", "worker"
    worker_thread,      \* reader.worker_thread is Some
    stop,               \* reader.stop
    lines,              \* reader.lines: the queue of Ok(Line) and Err(ReadError)
    \* the worker closure of begin_read
    wpc,                \* where the worker thread is
    start_mode,
    started,
    line_buf,
    t,                  \* the last value of start_time.elapsed()
    \* the device
    device,             \* per byte the device will still deliver, the values it may have
    \* bookkeeping of the checks
    parsed,             \* the last parse_values call: its line and its result
    first_n,            \* numeric fields of the first line parsed since reset (-1: none)
    schema_n,           \* the same of the first line with a numeric field at all
    last_t,             \* timestamp of the last line get_line returned in this session
    reads_since_stop,   \* port.read calls of the worker since stop was stored
    \* app.data.conn_config and the start-up flag
    conn_port,          \* conn_config.port: a device name or the placeholder "-"
    data_bits,          \* conn_config.data_bits
    stop_bits,          \* conn_config.stop_bits
    start_connected,    \* app.start_connected
    devices,            \* the device names serialport::available_ports() lists
    \* bookkeeping of the calls
    ret,                \* what the last direct call of a SerialReader method returned
    \* the mutex of reader.lines, where its acquisition is a step of its own
    lock,               \* who holds it: "free", "worker", "poll"
    pending,            \* the record the worker is about to push (None: none)
    \* the plot
    window,             \* app.data.plot_config.window
    visible,            \* per series, the points the last plot() call has drawn
    plot_mode,          \* app.data.plot_config.mode
    scale_mode,         \* app.data.plot_config.scale_mode
    plots,              \* app.data.plots: records of id, console and hidden
    plot_id,            \* the static PLOT_ID
    plot_ranges,        \* ui.plot_ranges: triples <<plot id, min, max>>
    hidden_items,       \* egui's PlotMemory: pairs <<plot id, slot name>> hidden in the legend
    observed            \* plot id, min and max of the last plot() call (None: none yet)

vars == <<reader, columns, values, console, paused, inp_slots, notification,
          minor_notification, pc, err, port, worker_thread, stop, lines, wpc,
          start_mode, started, line_buf, t, device, parsed, first_n, schema_n,
          last_t,
          reads_since_stop, conn_port, data_bits, stop_bits, start_connected,
          devices, ret, lock, pending, window, visible, plot_mode, scale_mode,
          plots, plot_id, plot_ranges, hidden_items, observed>>

parser_vars == <<columns, parsed, first_n, schema_n>>
app_vars == <<parser_vars, values, console, paused, inp_slots, notification,
              minor_notification, err>>
reader_vars == <<port, worker_thread, stop, lines>>
worker_vars == <<wpc, start_mode, started, line_buf, t>>
cfg_vars == <<conn_port, data_bits, stop_bits, start_connected, devices>>
call_vars == <<ret>>
lock_vars == <<lock, pending>>
plot_vars == <<window, visible, plot_mode, scale_mode, plots, plot_id, plot_ranges,
               hidden_items, observed>>

(***************************************************************************)
(* The worker closure of SerialReader::begin_read.                         *)
(***************************************************************************)
\* char::from_u32(buffer[0] as u32): Some for every value of a byte
CharFromU32(b) == [tag |-> "Some", c |-> b]

\* what one port.read makes of read_line: "more" (the loop goes on) or its result
ReadLineStep(ev, buf) ==
    IF ev = ReadFail THEN [ret |-> ErrS("io"), buf |-> buf]
    ELSE IF ev = ReadZero THEN [ret |-> ErrS("Unexpected byte amount!"), buf |-> buf]
    ELSE LET c == CharFromU32(ev)
         IN  IF c.tag = "None"
             THEN [ret |-> ErrS("Byte is not a valid ASCII character!"), buf |-> buf]
             ELSE IF c.c = LF THEN [ret |-> OkN(Len(buf)), buf |-> buf]
             ELSE [ret |-> None, buf |-> Append(buf, c.c)]

StartOff(mode) == IF mode.mode = "Delay" THEN mode.delay ELSE 0

\* t.as_secs_f64() - start_off
Timestamp(te, mode) == te - StartOff(mode)

\* `started` after the trigger evaluation of one loop iteration
Triggered(mode, was_started, line, te) ==
    CASE mode.mode = "Immediate" -> TRUE
      [] mode.mode = "Delay"     -> was_started \/ te >= mode.delay
      [] mode.mode = "Message"   -> was_started \/ EndsWith(line, mode.msg)

\* the mutant of the worker's loop body without the break after the pushed Err
LoopBodyNoBreak(mode, was_started, res, buf, te) ==
    LET line == Trim(buf)
        now_started == Triggered(mode, was_started, line, te)
    IN  IF (mode.mode = "Message" /\ ~was_started) \/ ~now_started
        THEN [started |-> now_started, push |-> None, wpc |-> "loop"]
        ELSE IF res = OkN(0)
        THEN [started |-> now_started, push |-> None, wpc |-> "done"]
        ELSE IF res.tag = "Ok"
        THEN [started |-> now_started,
              push |-> OkLine(Timestamp(te, mode), line), wpc |-> "loop"]
        ELSE [started |-> now_started, push |-> ReadError(res.e), wpc |-> "loop"]

\* the rest of a loop iteration once read_line has returned res at elapsed time te:
\* the new `started`, what is pushed to the queue (None: nothing), where the loop goes
LoopBody(mode, was_started, res, buf, te) ==
    LET line == Trim(buf)
        now_started == Triggered(mode, was_started, line, te)
    IN  IF (mode.mode = "Message" /\ ~was_started) \/ ~now_started
        THEN [started |-> now_started, push |-> None, wpc |-> "loop"]
        ELSE IF res = OkN(0)
        THEN [started |-> now_started, push |-> None, wpc |-> "done"]
        ELSE IF res.tag = "Ok"
        THEN [started |-> now_started,
              push |-> OkLine(Timestamp(te, mode), line), wpc |-> "loop"]
        ELSE [started |-> now_started, push |-> ReadError(res.e), wpc |-> "done"]

\* loop top: the stop check, then line_buf.clear()
WorkerLoopTop ==
    /\ wpc = "loop"
    /\ IF stop
       THEN /\ wpc' = "done"
            /\ port' = "None"
            /\ UNCHANGED line_buf
       ELSE /\ wpc' = "read_line"
            /\ line_buf' = <<>>
            /\ UNCHANGED port
    /\ UNCHANGED <<cfg_vars, call_vars, reader, app_vars, pc, worker_thread, stop, lines, start_mode,
                   started, t, device, last_t, reads_since_stop>>
    /\ UNCHANGED <<lock_vars, plot_vars>>

\* one port.read of read_line with outcome ev; when read_line returns with it, the
\* rest of the loop iteration, d time units after the previous reading of the clock
WorkerReadLine(ev, d) ==
    /\ wpc = "read_line"
    /\ ev \in Bytes => device # <<>> /\ ev \in Head(device)
    /\ LET step == ReadLineStep(ev, line_buf)
       IN  /\ device' = IF ev \in Bytes THEN Tail(device) ELSE device
           /\ reads_since_stop' =
                  IF stop /\ reads_since_stop <= StopReadBound
                  THEN reads_since_stop + 1 ELSE reads_since_stop
           /\ IF step.ret = None
              THEN /\ Len(line_buf) < MaxLine
                   /\ line_buf' = step.buf
                   /\ UNCHANGED <<wpc, started, t, lines, port>>
              ELSE LET te == t + d
                       body == LoopBody(start_mode, started, step.ret, line_buf, te)
                   IN  /\ te <= MaxT
                       /\ t' = te
                       /\ started' = body.started
                       /\ lines' = IF body.push = None THEN lines
                                   ELSE Append(lines, body.push)
                       /\ wpc' = body.wpc
                       /\ port' = IF body.wpc = "done" THEN "None" ELSE port
                       /\ UNCHANGED line_buf
    /\ UNCHANGED <<cfg_vars, call_vars, reader, app_vars, pc, worker_thread, stop, start_mode, last_t>>
    /\ UNCHANGED <<lock_vars, plot_vars>>

(***************************************************************************)
(* The worker with the mutex of the queue as steps of its own: a record is *)
(* pushed under a guard taken after read_line has returned and dropped at  *)
(* the end of the match arm.                                               *)
(***************************************************************************)
\* one port.read of read_line; when read_line returns, the loop iteration up to
\* the match on res: the record to push waits in pending for the mutex
WorkerReadLineToLock(ev, d) ==
    /\ wpc = "read_line"
    /\ ev \in Bytes => device # <<>> /\ ev \in Head(device)
    /\ LET step == ReadLineStep(ev, line_buf)
       IN  /\ device' = IF ev \in Bytes THEN Tail(device) ELSE device
           /\ reads_since_stop' =
                  IF stop /\ reads_since_stop <= StopReadBound
                  THEN reads_since_stop + 1 ELSE reads_since_stop
           /\ IF step.ret = None
              THEN /\ Len(line_buf) < MaxLine
                   /\ line_buf' = step.buf
                   /\ UNCHANGED <<wpc, started, t, pending, port>>
              ELSE LET te == t + d
                       body == LoopBody(start_mode, started, step.ret, line_buf, te)
                   IN  /\ te <= MaxT
                       /\ t' = te
                       /\ started' = body.started
                       /\ pending' = body.push
                       /\ wpc' = IF body.push = None THEN body.wpc ELSE "lock"
                       /\ port' = IF body.push = None /\ body.wpc = "done"
                                  THEN "None" ELSE port
                       /\ UNCHANGED line_buf
    /\ UNCHANGED <<cfg_vars, call_vars, reader, app_vars, pc, worker_thread, stop, start_mode,
                   last_t, lines, lock, plot_vars>>

\* lines.lock() of the worker
WorkerLock ==
    /\ wpc = "lock"
    /\ lock = "free"
    /\ lock' = "worker"
    /\ wpc' = "push"
    /\ UNCHANGED <<cfg_vars, call_vars, reader, app_vars, pc, port, worker_thread, stop, lines,
                   start_mode, started, line_buf, t, device, last_t, reads_since_stop,
                   pending, plot_vars>>

\* the mutant of the worker's push whose guard lives on into the next iteration
WorkerPushKeepsLock ==
    /\ wpc = "push"
    /\ lock = "worker"
    /\ lines' = Append(lines, pending)
    /\ UNCHANGED lock
    /\ pending' = None
    /\ wpc' = IF pending.tag = "Err" THEN "done" ELSE "loop"
    /\ port' = IF pending.tag = "Err" THEN "None" ELSE port
    /\ UNCHANGED <<cfg_vars, call_vars, reader, app_vars, pc, worker_thread, stop,
                   start_mode, started, line_buf, t, device, last_t, reads_since_stop,
                   plot_vars>>

\* locked_lines.push_back(..) and the end of the if-let that drops the guard; after
\* the push of a read error the loop breaks
WorkerPush ==
    /\ wpc = "push"
    /\ lock = "worker"
    /\ lines' = Append(lines, pending)
    /\ lock' = "free"
    /\ pending' = None
    /\ wpc' = IF pending.tag = "Err" THEN "done" ELSE "loop"
    /\ port' = IF pending.tag = "Err" THEN "None" ELSE port
    /\ UNCHANGED <<cfg_vars, call_vars, reader, app_vars, pc, worker_thread, stop,
                   start_mode, started, line_buf, t, device, last_t, reads_since_stop,
                   plot_vars>>

(***************************************************************************)
(* The calls of the parser.                                                *)
(***************************************************************************)
\* the number of numeric fields of a line
NumericFields(line) ==
    Cardinality({i \in 1..Len(SplitComma(line, <<>>)) :
                    ParseF64(Trim(SplitComma(line, <<>>)[i])).tag = "Ok"})

\* parser.parse_values(line)
ParserCall(line) ==
    LET r == ParseValues(columns, line)
    IN  /\ columns' = r.columns
        /\ parsed' = [line |-> line, result |-> r.result]
        /\ first_n' = IF first_n = -1 THEN NumericFields(line) ELSE first_n
        /\ schema_n' = IF schema_n = -1 /\ NumericFields(line) > 0
                       THEN NumericFields(line) ELSE schema_n

\* parser.reset()
ParserReset ==
    /\ columns' = 0
    /\ parsed' = None
    /\ first_n' = -1
    /\ schema_n' = -1

(***************************************************************************)
(* SerialReader::get_line and SerialReader::is_open.                       *)
(***************************************************************************)
\* the mutant of get_line that pops the newest record
GetLineNewest(q) ==
    IF q = <<>> THEN [item |-> None, rest |-> q]
    ELSE [item |-> q[Len(q)], rest |-> SubSeq(q, 1, Len(q) - 1)]

\* the mutant of get_line that finds nothing when one record is left
GetLineLeavesLast(q) ==
    IF Len(q) <= 1 THEN [item |-> None, rest |-> q]
    ELSE [item |-> Head(q), rest |-> Tail(q)]

\* lines.pop_front(): the record returned (None: the queue is empty) and the rest
GetLine(q) ==
    IF q = <<>> THEN [item |-> None, rest |-> q]
    ELSE [item |-> Head(q), rest |-> Tail(q)]

IsOpen == port = "reader" \/ worker_thread

\* SerialMonitorApp::is_connected
IsConnected == reader = "Some" /\ IsOpen

(***************************************************************************)
(* SerialReader::open and SerialReader::begin_read.                        *)
(***************************************************************************)
OkUnit == [tag |-> "Ok"]
UnsupportedDataBits(n) == "UnsupportedDataBits(" \o ToString(n) \o ")"
UnsupportedStopBits(n) == "UnsupportedStopBits(" \o ToString(n) \o ")"

\* what the OS makes of an open: the port opens and DTR is written, the open fails,
\* or the port opens and the DTR write fails
OsResults == {"Ok", "OpenError", "WriteDtrError"}

\* the mutant of open that does not look at is_open
OpenUnguarded(self_port, self_worker, dbits, sbits, os) ==
    IF dbits \notin {5, 6, 7, 8}
    THEN [result |-> ErrS(UnsupportedDataBits(dbits)), port |-> self_port,
          io |-> FALSE]
    ELSE IF sbits \notin {1, 2}
    THEN [result |-> ErrS(UnsupportedStopBits(sbits)), port |-> self_port,
          io |-> FALSE]
    ELSE IF os = "Ok"
    THEN [result |-> OkUnit, port |-> "reader", io |-> TRUE]
    ELSE [result |-> ErrS(os), port |-> self_port, io |-> TRUE]

\* open(): its result, the reader's port afterwards, and whether the OS was asked to
\* open the device (io)
Open(self_port, self_worker, dbits, sbits, os) ==
    IF self_port = "reader" \/ self_worker
    THEN [result |-> ErrS("AlreadyOpen"), port |-> self_port, io |-> FALSE]
    ELSE IF dbits \notin {5, 6, 7, 8}
    THEN [result |-> ErrS(UnsupportedDataBits(dbits)), port |-> self_port,
          io |-> FALSE]
    ELSE IF sbits \notin {1, 2}
    THEN [result |-> ErrS(UnsupportedStopBits(sbits)), port |-> self_port,
          io |-> FALSE]
    ELSE IF os = "Ok"
    THEN [result |-> OkUnit, port |-> "reader", io |-> TRUE]
    ELSE [result |-> ErrS(os), port |-> self_port, io |-> TRUE]

\* begin_read(): its result and whether the worker is spawned with the handle
BeginRead(self_port, self_worker) ==
    IF self_worker THEN [result |-> ErrS("AlreadyReading"), spawn |-> FALSE]
    ELSE IF self_port # "reader"
    THEN [result |-> ErrS("PortNotOpen"), spawn |-> FALSE]
    ELSE [result |-> OkUnit, spawn |-> TRUE]

(***************************************************************************)
(* Direct calls of the SerialReader methods on one reader, in any order.   *)
(***************************************************************************)
\* the handle as the reader's own field has it: the worker's handle is not the reader's
SelfPort == IF port = "reader" THEN "reader" ELSE "None"

\* SerialReader::new
ReaderNew ==
    /\ pc = "idle"
    /\ reader = "None"
    /\ reader' = "Some"
    /\ port' = "None"
    /\ worker_thread' = FALSE
    /\ stop' = FALSE
    /\ lines' = <<>>
    /\ ret' = [call |-> "new"]
    /\ UNCHANGED <<cfg_vars, app_vars, pc, worker_vars, device, last_t,
                   reads_since_stop>>
    /\ UNCHANGED <<lock_vars, plot_vars>>

\* reader.open(dtr) with the given data bits and stop bits in its config
ReaderOpen(dbits, sbits, os) ==
    /\ pc = "idle"
    /\ reader = "Some"
    /\ LET o == Open(SelfPort, worker_thread, dbits, sbits, os)
       IN  /\ port' = IF o.port = "reader" THEN "reader" ELSE port
           /\ ret' = [call |-> "open", result |-> o.result, io |-> o.io]
    /\ UNCHANGED <<cfg_vars, reader, app_vars, pc, worker_thread, stop, lines,
                   worker_vars, device, last_t, reads_since_stop>>
    /\ UNCHANGED <<lock_vars, plot_vars>>

\* the mutant of begin_read that spawns the worker and keeps the handle in the reader
ReaderBeginReadKeepsHandle(mode) ==
    /\ pc = "idle"
    /\ reader = "Some"
    /\ LET b == BeginRead(SelfPort, worker_thread)
       IN  /\ ret' = [call |-> "begin_read", result |-> b.result]
           /\ IF b.spawn
              THEN /\ port' = port
                   /\ worker_thread' = TRUE
                   /\ wpc' = "loop"
                   /\ start_mode' = mode
                   /\ started' = (mode.mode = "Immediate")
                   /\ line_buf' = <<>>
                   /\ t' = 0
              ELSE UNCHANGED <<port, worker_thread, worker_vars>>
    /\ UNCHANGED <<cfg_vars, reader, app_vars, pc, stop, lines, device, last_t,
                   reads_since_stop>>
    /\ UNCHANGED <<lock_vars, plot_vars>>

\* reader.begin_read(start_mode)
ReaderBeginRead(mode) ==
    /\ pc = "idle"
    /\ reader = "Some"
    /\ LET b == BeginRead(SelfPort, worker_thread)
       IN  /\ ret' = [call |-> "begin_read", result |-> b.result]
           /\ IF b.spawn
              THEN /\ port' = "worker"
                   /\ worker_thread' = TRUE
                   /\ wpc' = "loop"
                   /\ start_mode' = mode
                   /\ started' = (mode.mode = "Immediate")
                   /\ line_buf' = <<>>
                   /\ t' = 0
              ELSE UNCHANGED <<port, worker_thread, worker_vars>>
    /\ UNCHANGED <<cfg_vars, reader, app_vars, pc, stop, lines, device, last_t,
                   reads_since_stop>>
    /\ UNCHANGED <<lock_vars, plot_vars>>

\* reader.get_line()
ReaderGetLine ==
    /\ pc = "idle"
    /\ reader = "Some"
    /\ lines' = GetLine(lines).rest
    /\ ret' = [call |-> "get_line", result |-> GetLine(lines).item]
    /\ UNCHANGED <<cfg_vars, reader, app_vars, pc, port, worker_thread, stop,
                   worker_vars, device, last_t, reads_since_stop>>
    /\ UNCHANGED <<lock_vars, plot_vars>>

\* the reader is dropped: Drop runs stop_read, here up to the store of the flag
ReaderDrop ==
    /\ pc = "idle"
    /\ reader = "Some"
    /\ stop' = TRUE
    /\ pc' = "stop_read"
    /\ ret' = [call |-> "drop"]
    /\ UNCHANGED <<cfg_vars, reader, app_vars, port, worker_thread, lines,
                   worker_vars, device, last_t, reads_since_stop>>
    /\ UNCHANGED <<lock_vars, plot_vars>>

(***************************************************************************)
(* SerialMonitorApp: the sample store, the console log, the input slots.   *)
(***************************************************************************)
STORED_LINES == 512

\* the largest window of the plot settings: 60.0 s, in units of 100 ms
STORED_DURATION == 600

\* the mutant of handle_input without the loop that pushes the missing series
HandleInputNoGrow(vals, tm, tuple) ==
    [i \in 1..Len(vals) |-> IF i <= Len(tuple)
                            THEN Append(vals[i], <<tm, tuple[i]>>)
                            ELSE vals[i]]

\* handle_input: grow the series list to the tuple's length, append (t, v_i) to series i
HandleInput(vals, tm, tuple) ==
    LET n == IF Len(vals) < Len(tuple) THEN Len(tuple) ELSE Len(vals)
        grown == [i \in 1..n |-> IF i <= Len(vals) THEN vals[i] ELSE <<>>]
    IN  [i \in 1..n |-> IF i <= Len(tuple)
                        THEN Append(grown[i], <<tm, tuple[i]>>)
                        ELSE grown[i]]

\* the mutant of handle_input_line that evicts the newest line instead of the oldest
HandleInputLineEvictsNewest(log, tm, line) ==
    LET pushed == Append(log, <<tm, line>>)
    IN  IF Len(pushed) > STORED_LINES THEN SubSeq(pushed, 1, Len(pushed) - 1)
        ELSE pushed

\* handle_input_line: "[t] > line" is appended, the oldest line evicted over the cap
HandleInputLine(log, tm, line) ==
    LET pushed == Append(log, <<tm, line>>)
    IN  IF Len(pushed) > STORED_LINES THEN Tail(pushed) ELSE pushed

\* prep_input_slots(slots): a slot for every index below `slots` that has none
PrepInputSlots(slots_now, slots) ==
    IF Len(slots_now) >= slots THEN slots_now
    ELSE [i \in 1..slots |-> IF i <= Len(slots_now) THEN slots_now[i]
                             ELSE [index |-> i - 1, name |-> <<"Slot", i>>]]

Warning(msg) == [tag |-> "Warning", text |-> msg]
Error(msg) == [tag |-> "Error", text |-> msg]
Info(msg) == [tag |-> "Info", text |-> msg]

(***************************************************************************)
(* The controller thread: connect, the polling tick, disconnect, pause.    *)
(***************************************************************************)
\* ConnectionConfig::NO_PORT
NO_PORT == "-"

\* can_connect
CanConnect == conn_port # NO_PORT

\* reset_port_if_missing: the configured port after it
ResetPortIfMissing(p, available) == IF p \in available THEN p ELSE NO_PORT

\* connect_current(): a new SerialReader, open, begin_read; on Ok the reader is
\* stored with its worker running and paused is cleared, on Err nothing is stored
\* and the new reader is dropped.  os is what the OS makes of the open.
ConnectCurrentResult(os) ==
    LET o == Open("None", FALSE, data_bits, stop_bits, os)
    IN  IF o.result.tag = "Err" THEN o.result ELSE BeginRead(o.port, FALSE).result

\* the mutant of connect_current that stores the new reader before it opens it
ConnectCurrentStoresFirst(mode, os) ==
    IF ConnectCurrentResult(os).tag = "Ok"
    THEN /\ reader' = "Some"
         /\ port' = "worker"
         /\ worker_thread' = TRUE
         /\ stop' = FALSE
         /\ lines' = <<>>
         /\ wpc' = "loop"
         /\ start_mode' = mode
         /\ started' = (mode.mode = "Immediate")
         /\ line_buf' = <<>>
         /\ t' = 0
         /\ paused' = FALSE
         /\ last_t' = 0
         /\ reads_since_stop' = 0
    ELSE /\ reader' = "Some"
         /\ UNCHANGED <<reader_vars, worker_vars, paused, last_t, reads_since_stop>>

ConnectCurrentCall(mode, os) ==
    IF ConnectCurrentResult(os).tag = "Ok"
    THEN /\ reader' = "Some"
         /\ port' = "worker"
         /\ worker_thread' = TRUE
         /\ stop' = FALSE
         /\ lines' = <<>>
         /\ wpc' = "loop"
         /\ start_mode' = mode
         /\ started' = (mode.mode = "Immediate")
         /\ line_buf' = <<>>
         /\ t' = 0
         /\ paused' = FALSE
         /\ last_t' = 0
         /\ reads_since_stop' = 0
    ELSE UNCHANGED <<reader, reader_vars, worker_vars, paused, last_t,
                     reads_since_stop>>

\* the mutant of the Connect button that connects whether or not a session exists
ConnectCurrentAnyState(mode, opened) ==
    /\ pc = "idle"
    /\ ~start_connected
    /\ CanConnect
    /\ ConnectCurrentCall(mode, opened)
    /\ notification' =
           IF ConnectCurrentResult(opened).tag = "Ok" THEN notification
           ELSE Error(<<"Could not connect!", ConnectCurrentResult(opened).e>>)
    /\ UNCHANGED <<cfg_vars, call_vars, parser_vars, values, console, inp_slots,
                   minor_notification, pc, err, device>>
    /\ UNCHANGED <<lock_vars, plot_vars>>

\* conn_panel's Connect button (enabled by can_connect, connecting when not
\* connected): connect_current with the configured start mode; opened is what the
\* OS makes of the open
ConnectCurrent(mode, opened) ==
    /\ pc = "idle"
    /\ ~start_connected
    /\ CanConnect
    /\ ~IsConnected
    /\ ConnectCurrentCall(mode, opened)
    /\ notification' =
           IF ConnectCurrentResult(opened).tag = "Ok" THEN notification
           ELSE Error(<<"Could not connect!", ConnectCurrentResult(opened).e>>)
    /\ UNCHANGED <<cfg_vars, call_vars, parser_vars, values, console, inp_slots,
                   minor_notification, pc, err, device>>
    /\ UNCHANGED <<lock_vars, plot_vars>>

\* the mutant of update() that clears start_connected only when the connect succeeded
UpdateStartConnectedUntilOk(mode, opened) ==
    /\ pc = "idle"
    /\ start_connected
    /\ reader = "None"
    /\ conn_port' = ResetPortIfMissing(conn_port, devices)
    /\ inp_slots' = PrepInputSlots(inp_slots, columns)
    /\ start_connected' = (ConnectCurrentResult(opened).tag # "Ok")
    /\ ConnectCurrentCall(mode, opened)
    /\ notification' =
           IF ConnectCurrentResult(opened).tag = "Ok" THEN notification
           ELSE Error(<<ConnectCurrentResult(opened).e>>)
    /\ UNCHANGED <<data_bits, stop_bits, devices, call_vars, parser_vars, values,
                   console, minor_notification, pc, err, device>>
    /\ UNCHANGED <<lock_vars, plot_vars>>

\* the first update(): reset_port_if_missing, read_input without a reader,
\* prep_input_slots, then the start-up connect; its error goes to error(), whose
\* disconnect_current finds no reader
UpdateStartConnected(mode, opened) ==
    /\ pc = "idle"
    /\ start_connected
    /\ reader = "None"
    /\ conn_port' = ResetPortIfMissing(conn_port, devices)
    /\ inp_slots' = PrepInputSlots(inp_slots, columns)
    /\ start_connected' = FALSE
    /\ ConnectCurrentCall(mode, opened)
    /\ notification' =
           IF ConnectCurrentResult(opened).tag = "Ok" THEN notification
           ELSE Error(<<ConnectCurrentResult(opened).e>>)
    /\ UNCHANGED <<data_bits, stop_bits, devices, call_vars, parser_vars, values,
                   console, minor_notification, pc, err, device>>
    /\ UNCHANGED <<lock_vars, plot_vars>>

\* update() with no reader: reset_port_if_missing, read_input finds nothing to do,
\* then prep_input_slots
UpdateIdle ==
    /\ pc = "idle"
    /\ ~start_connected
    /\ reader = "None"
    /\ conn_port' = ResetPortIfMissing(conn_port, devices)
    /\ inp_slots' = PrepInputSlots(inp_slots, columns)
    /\ UNCHANGED <<data_bits, stop_bits, start_connected, devices, call_vars,
                   reader, parser_vars, values, console, paused, notification,
                   minor_notification, pc, err, reader_vars, worker_vars, device,
                   last_t, reads_since_stop>>
    /\ UNCHANGED <<lock_vars, plot_vars>>

\* update() with a reader: reset_port_if_missing, then read_input takes the reader
\* and starts its loop
ReadInput ==
    /\ pc = "idle"
    /\ reader = "Some"
    /\ pc' = "read_input"
    /\ err' = None
    /\ conn_port' = ResetPortIfMissing(conn_port, devices)
    /\ UNCHANGED <<data_bits, stop_bits, start_connected, devices, call_vars, reader, parser_vars, values, console, paused, inp_slots,
                   notification, minor_notification, reader_vars, worker_vars,
                   device, last_t, reads_since_stop>>
    /\ UNCHANGED <<lock_vars, plot_vars>>

\* the mutant of read_input that leaves its loop at the first Ok line while paused,
\* with the line still queued
ReadInputBodyKeepsPaused ==
    LET got == GetLine(lines)
        line == got.item
    IN  IF line # None /\ line.tag = "Ok" /\ paused
        THEN /\ pc' = "idle"
             /\ inp_slots' = PrepInputSlots(inp_slots, columns)
             /\ UNCHANGED <<lines, parser_vars, values, console, minor_notification,
                            err, last_t>>
        ELSE /\ lines' = got.rest
             /\ IF line = None
                THEN /\ pc' = "idle"
                     /\ inp_slots' = PrepInputSlots(inp_slots, columns)
                     /\ UNCHANGED <<parser_vars, values, console,
                                    minor_notification, err, last_t>>
                ELSE IF line.tag = "Ok"
                THEN /\ last_t' = line.t
                     /\ ParserCall(line.content)
                     /\ IF parsed'.result.tag = "Ok"
                        THEN /\ values' = HandleInput(values, line.t,
                                                      parsed'.result.values)
                             /\ UNCHANGED minor_notification
                        ELSE /\ minor_notification' = Warning(parsed'.result.e)
                             /\ UNCHANGED values
                     /\ console' = HandleInputLine(console, line.t, line.content)
                     /\ pc' = "read_input"
                     /\ UNCHANGED <<err, inp_slots>>
                ELSE /\ err' = [tag |-> "Some", e |-> line.e]
                     /\ pc' = "error"
                     /\ UNCHANGED <<parser_vars, values, console,
                                    minor_notification, inp_slots, last_t>>

\* one iteration of read_input's loop: get_line, then the line's handling; when
\* get_line returns None the reader is put back and update() goes on to
\* prep_input_slots
\* what one iteration of read_input's loop does once get_line has the queue
ReadInputBody ==
    LET got == GetLine(lines)
        line == got.item
    IN  /\ lines' = got.rest
        /\ IF line = None
           THEN /\ pc' = "idle"
                /\ inp_slots' = PrepInputSlots(inp_slots, columns)
                /\ UNCHANGED <<parser_vars, values, console,
                               minor_notification, err, last_t>>
           ELSE IF line.tag = "Ok"
           THEN /\ last_t' = line.t
                /\ IF ~paused
                   THEN /\ ParserCall(line.content)
                        /\ IF parsed'.result.tag = "Ok"
                           THEN /\ values' = HandleInput(values, line.t,
                                                         parsed'.result.values)
                                /\ UNCHANGED minor_notification
                           ELSE /\ minor_notification' =
                                       Warning(parsed'.result.e)
                                /\ UNCHANGED values
                        /\ console' = HandleInputLine(console, line.t,
                                                      line.content)
                   ELSE UNCHANGED <<parser_vars, values, console,
                                    minor_notification>>
                /\ pc' = "read_input"
                /\ UNCHANGED <<err, inp_slots>>
           ELSE /\ err' = [tag |-> "Some", e |-> line.e]
                /\ pc' = "error"
                /\ UNCHANGED <<parser_vars, values, console,
                               minor_notification, inp_slots, last_t>>

ReadInputLoop ==
    /\ pc = "read_input"
    /\ ReadInputBody
    /\ UNCHANGED <<cfg_vars, call_vars, reader, paused, notification, port, worker_thread, stop,
                   worker_vars, device, reads_since_stop>>
    /\ UNCHANGED <<lock_vars, plot_vars>>

(***************************************************************************)
(* get_line with the mutex of the queue as steps of its own: lines.lock()  *)
(* waits until the mutex is free; the guard lives until get_line returns.  *)
(***************************************************************************)
\* self.lines.lock() of get_line
GetLineLock ==
    /\ pc = "read_input"
    /\ lock = "free"
    /\ lock' = "poll"
    /\ pc' = "get_line"
    /\ UNCHANGED <<cfg_vars, call_vars, reader, app_vars, reader_vars, worker_vars,
                   device, last_t, reads_since_stop, pending, plot_vars>>

\* the mutant of get_line whose guard outlives the call
GetLinePopKeepsLock ==
    /\ pc = "get_line"
    /\ lock = "poll"
    /\ ReadInputBody
    /\ UNCHANGED lock
    /\ UNCHANGED <<cfg_vars, call_vars, reader, paused, notification, port, worker_thread, stop,
                   worker_vars, device, reads_since_stop, pending, plot_vars>>

\* lines.pop_front() under the guard, the return that drops the guard, and the
\* handling of what was popped
GetLinePop ==
    /\ pc = "get_line"
    /\ lock = "poll"
    /\ ReadInputBody
    /\ lock' = "free"
    /\ UNCHANGED <<cfg_vars, call_vars, reader, paused, notification, port, worker_thread, stop,
                   worker_vars, device, reads_since_stop, pending, plot_vars>>

\* the mutant of error(msg) that shows the notification and keeps the session
ErrorOnlyNotifies ==
    /\ pc = "error"
    /\ notification' = Error(<<"ReadError", err.e>>)
    /\ pc' = "idle"
    /\ UNCHANGED <<cfg_vars, call_vars, reader, parser_vars, values, console, paused, inp_slots,
                   minor_notification, err, reader_vars, worker_vars, device,
                   last_t, reads_since_stop>>
    /\ UNCHANGED <<lock_vars, plot_vars>>

\* error(msg): the notification, then disconnect_current, whose drop of the reader
\* starts stop_read by storing the stop flag
ErrorDisconnect ==
    /\ pc = "error"
    /\ notification' = Error(<<"ReadError", err.e>>)
    /\ stop' = TRUE
    /\ pc' = "stop_read"
    /\ UNCHANGED <<cfg_vars, call_vars, reader, parser_vars, values, console, paused, inp_slots,
                   minor_notification, err, port, worker_thread, lines,
                   worker_vars, device, last_t, reads_since_stop>>
    /\ UNCHANGED <<lock_vars, plot_vars>>

\* conn_panel's Disconnect button: disconnect_current, up to the store of the flag
DisconnectCurrent ==
    /\ pc = "idle"
    /\ IsConnected
    /\ stop' = TRUE
    /\ pc' = "stop_read"
    /\ UNCHANGED <<cfg_vars, call_vars, reader, app_vars, port, worker_thread, lines, worker_vars,
                   device, last_t, reads_since_stop>>
    /\ UNCHANGED <<lock_vars, plot_vars>>

\* the mutant of the join that returns while the worker is still running
JoinReturnsAtOnce == TRUE

\* handle.join() returns: the worker thread has terminated
JoinReturns == worker_thread => wpc = "done"

\* the mutant of disconnect_current that leaves the samples in the store
StopReadJoinKeepsValues ==
    /\ pc = "stop_read"
    /\ JoinReturns
    /\ worker_thread' = FALSE
    /\ reader' = "None"
    /\ lines' = <<>>
    /\ ParserReset
    /\ paused' = FALSE
    /\ err' = None
    /\ pc' = "idle"
    /\ inp_slots' = IF err # None THEN PrepInputSlots(inp_slots, 0) ELSE inp_slots
    /\ UNCHANGED <<cfg_vars, call_vars, values, console, notification, minor_notification,
                   port, stop, worker_vars, device, last_t, reads_since_stop>>
    /\ UNCHANGED <<lock_vars, plot_vars>>

\* the mutant of disconnect_current that leaves the parser as it is
StopReadJoinKeepsSchema ==
    /\ pc = "stop_read"
    /\ JoinReturns
    /\ worker_thread' = FALSE
    /\ reader' = "None"
    /\ lines' = <<>>
    /\ values' = <<>>
    /\ paused' = FALSE
    /\ err' = None
    /\ pc' = "idle"
    /\ UNCHANGED <<cfg_vars, call_vars, parser_vars, inp_slots, console,
                   notification, minor_notification, port, stop, worker_vars,
                   device, last_t, reads_since_stop>>
    /\ UNCHANGED <<lock_vars, plot_vars>>

\* stop_read's join, then the rest of disconnect_current: the reader is dropped,
\* parser.reset(), values.clear(), paused = false
StopReadJoin ==
    /\ pc = "stop_read"
    /\ JoinReturns
    /\ worker_thread' = FALSE
    /\ reader' = "None"
    /\ lines' = <<>>
    /\ ParserReset
    /\ values' = <<>>
    /\ paused' = FALSE
    /\ err' = None
    /\ pc' = "idle"
    /\ inp_slots' = IF err # None THEN PrepInputSlots(inp_slots, 0) ELSE inp_slots
    /\ UNCHANGED <<cfg_vars, call_vars, console, notification, minor_notification, port, stop,
                   worker_vars, device, last_t, reads_since_stop>>
    /\ UNCHANGED <<lock_vars, plot_vars>>

\* PlotData::new and PlotData::console: a plot with the next id, which it consumes
PlotDataNew(next_id) == [id |-> next_id, console |-> FALSE, hidden |-> {}]
PlotDataConsole(next_id) == [id |-> next_id, console |-> TRUE, hidden |-> {}]

\* the mutant of update_internal_ids that leaves the counter alone
UpdateInternalIdsSkipped(next_id, ps) == next_id

\* PlotData::update_internal_ids: the counter after it
UpdateInternalIds(next_id, ps) ==
    IF ps = <<>> THEN next_id
    ELSE (CHOOSE m \in {ps[i].id : i \in 1..Len(ps)} :
              \A i \in 1..Len(ps) : ps[i].id <= m) + 1

\* main: data.plots = vec![PlotData::new("Plot 1")], which takes id 1 of PLOT_ID
DefaultPlots == <<PlotDataNew(1)>>

\* the plot settings, the plot list and the counter at start-up; the UI starts with
\* no accumulator and nothing hidden
InitPlots(md, sm, ps, next_id) ==
    /\ plot_mode = md
    /\ scale_mode = sm
    /\ plots = ps
    /\ plot_id = next_id
    /\ plot_ranges = {}
    /\ hidden_items = {}
    /\ observed = None

\* conn_panel's dropdowns (enabled while not connected): the device among the
\* available ones, the data bits among DATA_BITS, the stop bits among STOP_BITS
DATA_BITS == {5, 6, 7, 8, 9}
STOP_BITS == {1, 2}
SelectConfig(p, dbits, sbits) ==
    /\ pc = "idle"
    /\ ~start_connected
    /\ ~IsConnected
    /\ p \in devices
    /\ dbits \in DATA_BITS
    /\ sbits \in STOP_BITS
    /\ conn_port' = p
    /\ data_bits' = dbits
    /\ stop_bits' = sbits
    /\ UNCHANGED <<start_connected, devices, call_vars, reader, app_vars, pc,
                   reader_vars, worker_vars, device, last_t, reads_since_stop>>
    /\ UNCHANGED <<lock_vars, plot_vars>>

\* a device is plugged in or unplugged: what available_ports() lists changes
DevicesChange(available) ==
    /\ devices' = available
    /\ devices' # devices
    /\ UNCHANGED <<conn_port, data_bits, stop_bits, start_connected, call_vars,
                   reader, app_vars, pc, reader_vars, worker_vars, device, last_t,
                   reads_since_stop>>
    /\ UNCHANGED <<lock_vars, plot_vars>>

\* the Load Config button: load_config drops the reader as disconnect_current does
\* (here up to the store of the stop flag) and replaces app.data by the loaded
\* configuration, slot list included; the button then shows "Loaded config"
LoadConfig(p, dbits, sbits, slots, w, md, sm, ps) ==
    /\ pc = "idle"
    /\ ~start_connected
    /\ conn_port' = p
    /\ data_bits' = dbits
    /\ stop_bits' = sbits
    /\ inp_slots' = slots
    /\ window' = w
    /\ plot_mode' = md
    /\ scale_mode' = sm
    /\ plots' = ps
    /\ plot_id' = UpdateInternalIds(plot_id, ps)
    /\ plot_ranges' = {}
    /\ hidden_items' = {}
    /\ notification' = Info(<<"Loaded config">>)
    /\ IF reader = "Some"
       THEN /\ stop' = TRUE
            /\ pc' = "stop_read"
       ELSE UNCHANGED <<stop, pc>>
    /\ UNCHANGED <<start_connected, devices, call_vars, reader, parser_vars,
                   values, console, paused, minor_notification, err, port,
                   worker_thread, lines, worker_vars, device, last_t,
                   reads_since_stop>>
    /\ UNCHANGED <<lock_vars, visible, observed>>

\* the Pause / Continue button
SetPaused ==
    /\ pc = "idle"
    /\ IsConnected
    /\ paused' = ~paused
    /\ UNCHANGED <<cfg_vars, call_vars, reader, parser_vars, values, console, inp_slots, notification,
                   minor_notification, pc, err, reader_vars, worker_vars, device,
                   last_t, reads_since_stop>>
    /\ UNCHANGED <<lock_vars, plot_vars>>

(***************************************************************************)
(* Specifications.                                                         *)
(***************************************************************************)
(***************************************************************************)
(* SerialMonitorUI::plot in PlotMode::Continous, and the window setting.   *)
(***************************************************************************)
\* values.last().unwrap_or(&[0.0, 0.0])[0]
TNow(vals) == IF vals = <<>> THEN 0 ELSE vals[Len(vals)][1]

\* the mutant of the Continous filter that drops the sample on the window's edge
ContinousStrict(vals, w) ==
    LET InWindow(n) == TNow(vals) - n[1] < w
    IN  SelectSeq(vals, InWindow)

\* values.iter().filter(|n| t_now - n[0] <= config.window).copied().collect()
Continous(vals, w) ==
    LET InWindow(n) == TNow(vals) - n[1] <= w
    IN  SelectSeq(vals, InWindow)

\* the mutant of the Cyclic filter whose old sweep is the whole cycle before split
CyclicFullOldSweep(vals, w) ==
    IF w = 0 THEN <<>>
    ELSE LET t_now == TNow(vals)
             sub == t_now % (IF w < 0 THEN -w ELSE w)
             split == t_now - sub
             start == split - w
             New(n) == n[1] > split
             Old(n) == n[1] >= start /\ n[1] < split
             old == SelectSeq(vals, Old)
         IN  SelectSeq(vals, New) \o [k \in 1..Len(old) |-> <<old[k][1] + w, old[k][2]>>]

\* the mutant of the Cyclic filter that leaves the old sweep at its own time
CyclicNoRemap(vals, w) ==
    IF w = 0 THEN <<>>
    ELSE LET t_now == TNow(vals)
             sub == t_now % (IF w < 0 THEN -w ELSE w)
             split == t_now - sub
             start == split - (w - sub)
             New(n) == n[1] > split
             Old(n) == n[1] >= start /\ n[1] < split
         IN  SelectSeq(vals, New) \o SelectSeq(vals, Old)

\* the mutant of the Cyclic filter that shows the sample on the sweep boundary
CyclicShowsSplit(vals, w) ==
    IF w = 0 THEN <<>>
    ELSE LET t_now == TNow(vals)
             sub == t_now % (IF w < 0 THEN -w ELSE w)
             split == t_now - sub
             start == split - (w - sub)
             New(n) == n[1] >= split
             Old(n) == n[1] >= start /\ n[1] < split
             old == SelectSeq(vals, Old)
         IN  SelectSeq(vals, New) \o [k \in 1..Len(old) |-> <<old[k][1] + w, old[k][2]>>]

\* PlotMode::Cyclic: the samples after the sweep boundary, then those of the sweep
\* before it moved on by the window; t_now % 0.0 is NaN, with which no comparison holds
Cyclic(vals, w) ==
    IF w = 0 THEN <<>>
    ELSE LET t_now == TNow(vals)
             sub == t_now % (IF w < 0 THEN -w ELSE w)
             split == t_now - sub
             start == split - (w - sub)
             New(n) == n[1] > split
             Old(n) == n[1] >= start /\ n[1] < split
             old == SelectSeq(vals, Old)
         IN  SelectSeq(vals, New) \o [k \in 1..Len(old) |-> <<old[k][1] + w, old[k][2]>>]

\* let filtered = match config.mode
Filtered(vals, md, w) == IF md = "Continous" THEN Continous(vals, w) ELSE Cyclic(vals, w)

\* f64::MAX and f64::MIN, beyond every value a line can hold
F64_MAX == 1000000
F64_MIN == 0 - F64_MAX
Min2(a, b) == IF a < b THEN a ELSE b
Max2(a, b) == IF a > b THEN a ELSE b

\* filtered.iter().fold((f64::MAX, f64::MIN), ..): the least and the largest value
RECURSIVE LocalRange(_)
LocalRange(pts) ==
    IF pts = <<>> THEN <<F64_MAX, F64_MIN>>
    ELSE LET r == LocalRange(Tail(pts))
         IN  <<Min2(r[1], Head(pts)[2]), Max2(r[2], Head(pts)[2])>>

\* PlotMemory::load(..).hidden_items.contains(&slot.name)
SlotHidden(id, slot) == <<id, slot.name>> \in hidden_items

\* the mutant of the frame's range that counts hidden series too
RECURSIVE FrameRangeCountsHidden(_, _, _, _)
FrameRangeCountsHidden(id, slots, shown, k) ==
    IF k = 0 THEN <<F64_MAX, F64_MIN>>
    ELSE LET r == FrameRangeCountsHidden(id, slots, shown, k - 1)
             l == LocalRange(shown[k])
         IN  <<Min2(r[1], l[1]), Max2(r[2], l[2])>>

\* min and max of a frame in AutoMax after the first k series: the series that are
\* not hidden in plot id are folded in
RECURSIVE FrameRange(_, _, _, _)
FrameRange(id, slots, shown, k) ==
    IF k = 0 THEN <<F64_MAX, F64_MIN>>
    ELSE LET r == FrameRange(id, slots, shown, k - 1)
             l == LocalRange(shown[k])
         IN  IF SlotHidden(id, slots[k]) THEN r
             ELSE <<Min2(r[1], l[1]), Max2(r[2], l[2])>>

\* the mutant of the accumulator that takes the frame's range as it is
AccumulateOverwrites(ranges, id, mm) ==
    {r \in ranges : r[1] # id} \cup {<<id, mm[1], mm[2]>>}

\* plot_ranges.entry(plot.id): inserted with the frame's range when vacant, then
\* widened by it
Accumulate(ranges, id, mm) ==
    IF \E r \in ranges : r[1] = id
    THEN {IF r[1] = id THEN <<id, Min2(r[2], mm[1]), Max2(r[3], mm[2])>> ELSE r :
             r \in ranges}
    ELSE ranges \cup {<<id, mm[1], mm[2]>>}

\* the indices of the slots whose name is hidden in the legend of plot id
HiddenIndices(id, slots) ==
    {slots[k].index : k \in {j \in 1..Len(slots) : SlotHidden(id, slots[j])}}

\* what plot() draws and measures for plots[i]: one line per pair of
\* zip(input_slots, input_values), and the range of the frame in AutoMax
Frame(i) ==
    LET n == IF Len(inp_slots) < Len(values) THEN Len(inp_slots) ELSE Len(values)
        shown == [k \in 1..n |-> Filtered(values[k], plot_mode, window)]
    IN  [shown |-> shown,
         mm |-> IF scale_mode = "AutoMax"
                THEN FrameRange(plots[i].id, inp_slots, shown, n)
                ELSE <<F64_MAX, F64_MIN>>]

\* plot() for plots[i] when neither Reset nor Delete is clicked: the lines, the
\* accumulator while zoom is off, and the legend's hidden items stored in the plot
PlotBody(i) ==
    LET id == plots[i].id
        mm == Frame(i).mm
    IN  /\ visible' = Frame(i).shown
        /\ observed' = [plot |-> i, id |-> id, min |-> mm[1], max |-> mm[2]]
        /\ plot_ranges' = IF ~paused /\ scale_mode = "AutoMax"
                          THEN Accumulate(plot_ranges, id, mm) ELSE plot_ranges
        /\ plots' = IF values # <<>>
                    THEN [plots EXCEPT ![i].hidden = HiddenIndices(id, inp_slots)]
                    ELSE plots

\* a frame's plot() of one plot of the list, after the tick
Plot(i) ==
    /\ pc = "idle"
    /\ i \in 1..Len(plots)
    /\ ~plots[i].console
    /\ PlotBody(i)
    /\ UNCHANGED <<cfg_vars, call_vars, reader, app_vars, pc, reader_vars, worker_vars,
                   device, last_t, reads_since_stop, lock_vars, window, plot_mode,
                   scale_mode, plot_id, hidden_items>>

\* the mutant of the Reset button that leaves the accumulator in place
ResetPlotKeepsRange(i) ==
    /\ pc = "idle"
    /\ i \in 1..Len(plots)
    /\ IF plots[i].console
       THEN /\ console' = <<>>
            /\ UNCHANGED <<visible, observed>>
       ELSE /\ visible' = Frame(i).shown
            /\ observed' = [plot |-> i, id |-> plots[i].id, min |-> Frame(i).mm[1],
                            max |-> Frame(i).mm[2]]
            /\ UNCHANGED console
    /\ plot_ranges' = IF ~plots[i].console /\ ~paused /\ scale_mode = "AutoMax"
                      THEN Accumulate(plot_ranges, plots[i].id, Frame(i).mm)
                      ELSE plot_ranges
    /\ UNCHANGED <<cfg_vars, call_vars, reader, parser_vars, values, paused, inp_slots,
                   notification, minor_notification, err, pc, reader_vars, worker_vars,
                   device, last_t, reads_since_stop, lock_vars, window, plot_mode,
                   scale_mode, plots, plot_id, hidden_items>>

\* the header's Reset (Clear) button of plots[i]: the frame is drawn, then the
\* accumulator of the plot's id is removed; reset_plot clears the log of a console
ResetPlot(i) ==
    /\ pc = "idle"
    /\ i \in 1..Len(plots)
    /\ IF plots[i].console
       THEN /\ console' = <<>>
            /\ UNCHANGED <<visible, observed>>
       ELSE /\ visible' = Frame(i).shown
            /\ observed' = [plot |-> i, id |-> plots[i].id, min |-> Frame(i).mm[1],
                            max |-> Frame(i).mm[2]]
            /\ UNCHANGED console
    /\ plot_ranges' = {r \in plot_ranges : r[1] # plots[i].id}
    /\ UNCHANGED <<cfg_vars, call_vars, reader, parser_vars, values, paused, inp_slots,
                   notification, minor_notification, err, pc, reader_vars, worker_vars,
                   device, last_t, reads_since_stop, lock_vars, window, plot_mode,
                   scale_mode, plots, plot_id, hidden_items>>

\* the header's Delete button of plots[i]: plot() returns at once, remove_plot
RemovePlot(i) ==
    /\ pc = "idle"
    /\ i \in 1..Len(plots)
    /\ plots' = [k \in 1..(Len(plots) - 1) |-> IF k < i THEN plots[k] ELSE plots[k + 1]]
    /\ UNCHANGED <<cfg_vars, call_vars, reader, app_vars, pc, reader_vars, worker_vars,
                   device, last_t, reads_since_stop, lock_vars, window, visible, plot_mode,
                   scale_mode, plot_id, plot_ranges, hidden_items, observed>>

\* has_console
HasConsole == \E k \in 1..Len(plots) : plots[k].console

\* the Add Plot button: add_plot inserts a new plot before the console
AddPlot ==
    /\ pc = "idle"
    /\ Len(plots) < MaxPlots /\ plot_id <= MaxPlotId
    /\ LET index == Len(plots) - (IF HasConsole THEN 1 ELSE 0)
       IN  plots' = [k \in 1..(Len(plots) + 1) |->
                        IF k <= index THEN plots[k]
                        ELSE IF k = index + 1 THEN PlotDataNew(plot_id)
                        ELSE plots[k - 1]]
    /\ plot_id' = plot_id + 1
    /\ UNCHANGED <<cfg_vars, call_vars, reader, app_vars, pc, reader_vars, worker_vars,
                   device, last_t, reads_since_stop, lock_vars, window, visible, plot_mode,
                   scale_mode, plot_ranges, hidden_items, observed>>

\* the Add Console button, enabled while there is no console: add_console
AddConsole ==
    /\ pc = "idle"
    /\ Len(plots) < MaxPlots /\ plot_id <= MaxPlotId
    /\ ~HasConsole
    /\ plots' = Append(plots, PlotDataConsole(plot_id))
    /\ plot_id' = plot_id + 1
    /\ UNCHANGED <<cfg_vars, call_vars, reader, app_vars, pc, reader_vars, worker_vars,
                   device, last_t, reads_since_stop, lock_vars, window, visible, plot_mode,
                   scale_mode, plot_ranges, hidden_items, observed>>

\* a click on an entry of the legend of the plot with this id: egui hides or shows
\* the lines of that name
ToggleHidden(id, name) ==
    /\ pc = "idle"
    /\ \E k \in 1..Len(plots) : plots[k].id = id /\ ~plots[k].console
    /\ \E k \in 1..Len(inp_slots) : inp_slots[k].name = name /\ k <= Len(values)
    /\ hidden_items' = IF <<id, name>> \in hidden_items
                       THEN hidden_items \ {<<id, name>>}
                       ELSE hidden_items \cup {<<id, name>>}
    /\ UNCHANGED <<cfg_vars, call_vars, reader, app_vars, pc, reader_vars, worker_vars,
                   device, last_t, reads_since_stop, lock_vars, window, visible, plot_mode,
                   scale_mode, plots, plot_id, plot_ranges, observed>>

\* plot_panel's "Scale" dropdown over SCALE_MODES
SCALE_MODES == {"Auto", "AutoMax", "Manual"}
SetScaleMode(sm) ==
    /\ pc = "idle"
    /\ sm \in SCALE_MODES
    /\ scale_mode' = sm
    /\ UNCHANGED <<cfg_vars, call_vars, reader, app_vars, pc, reader_vars, worker_vars,
                   device, last_t, reads_since_stop, lock_vars, window, visible, plot_mode,
                   plots, plot_id, plot_ranges, hidden_items, observed>>

\* plot() in PlotMode::Continous
PlotContinous ==
    /\ plot_mode = "Continous"
    /\ \E i \in 1..Len(plots) : Plot(i)

\* plot() in PlotMode::Cyclic
PlotCyclic ==
    /\ plot_mode = "Cyclic"
    /\ \E i \in 1..Len(plots) : Plot(i)

\* plot_panel's "Mode" dropdown over PLOT_MODES
PLOT_MODES == {"Continous", "Cyclic"}
SetMode(md) ==
    /\ pc = "idle"
    /\ md \in PLOT_MODES
    /\ plot_mode' = md
    /\ UNCHANGED <<cfg_vars, call_vars, reader, app_vars, pc, reader_vars, worker_vars,
                   device, last_t, reads_since_stop, lock_vars, window, visible,
                   scale_mode, plots, plot_id, plot_ranges, hidden_items, observed>>

\* plot_panel's "Window (s)" drag value, between 0 and STORED_DURATION
SetWindow(w) ==
    /\ pc = "idle"
    /\ 0 <= w /\ w <= STORED_DURATION
    /\ window' = w
    /\ UNCHANGED <<cfg_vars, call_vars, reader, app_vars, pc, reader_vars, worker_vars,
                   device, last_t, reads_since_stop, lock_vars, visible, plot_mode,
                   scale_mode, plots, plot_id, plot_ranges, hidden_items, observed>>

InitState(stream, p, dbits, sbits, connect, available) ==
    /\ reader = "None"
    /\ columns = 0
    /\ parsed = None
    /\ first_n = -1
    /\ schema_n = -1
    /\ values = <<>>
    /\ console = <<>>
    /\ paused = FALSE
    /\ inp_slots = <<>>
    /\ notification = None
    /\ minor_notification = None
    /\ pc = "idle"
    /\ err = None
    /\ port = "None"
    /\ worker_thread = FALSE
    /\ stop = FALSE
    /\ lines = <<>>
    /\ wpc = "none"
    /\ start_mode = Immediate
    /\ started = FALSE
    /\ line_buf = <<>>
    /\ t = 0
    /\ device = stream
    /\ last_t = 0
    /\ reads_since_stop = 0
    /\ conn_port = p
    /\ data_bits = dbits
    /\ stop_bits = sbits
    /\ start_connected = connect
    /\ devices = available
    /\ ret = None
    /\ lock = "free"
    /\ pending = None
    /\ window = 50
    /\ visible = <<>>

\* a session in which the ticks so far have stored the series in vals: connected and
\* idle, the queue drained, the worker between two reads, one slot per series; the
\* console log holds log
InitSession(vals, log, stream) ==
    /\ reader = "Some"
    /\ columns = Len(vals)
    /\ parsed = None
    /\ first_n = Len(vals)
    /\ schema_n = IF vals = <<>> THEN -1 ELSE Len(vals)
    /\ values = vals
    /\ console = log
    /\ paused = FALSE
    /\ inp_slots = PrepInputSlots(<<>>, Len(vals))
    /\ notification = None
    /\ minor_notification = None
    /\ pc = "idle"
    /\ err = None
    /\ port = "worker"
    /\ worker_thread = TRUE
    /\ stop = FALSE
    /\ lines = <<>>
    /\ wpc = "loop"
    /\ start_mode = Immediate
    /\ started = TRUE
    /\ line_buf = <<>>
    /\ t = IF vals = <<>> THEN 0 ELSE TNow(vals[1])
    /\ device = stream
    /\ last_t = IF vals = <<>> THEN 0 ELSE TNow(vals[1])
    /\ reads_since_stop = 0
    /\ conn_port = "dev"
    /\ data_bits = 8
    /\ stop_bits = 1
    /\ start_connected = FALSE
    /\ devices = {"dev"}
    /\ ret = None
    /\ lock = "free"
    /\ pending = None
    /\ visible = <<>>

\* the application started without --connect, device "dev" selected at 8 data bits
\* and 1 stop bit, and "dev" stays plugged in
InitWith(stream) ==
    /\ InitState(stream, "dev", 8, 1, FALSE, {"dev"})
    /\ InitPlots("Continous", "Auto", DefaultPlots, 2)

Controller ==
    \/ UpdateIdle
    \/ ReadInput
    \/ ReadInputLoop
    \/ ErrorDisconnect
    \/ DisconnectCurrent
    \/ StopReadJoin
    \/ SetPaused

\* the time between two readings of the worker's clock: none, or 900 ms
TimeSteps == {0, 9}

\* the reader under every read outcome and every start mode
StartModes == {Immediate, Delay(9), Message(<<"x">>)}
OpenResults == {"Ok", "OpenError"}
Init == InitWith([i \in 1..MaxBytes |-> {"x", " ", HiByte, LF}])
Next ==
    \/ \E mode \in StartModes, opened \in OpenResults : ConnectCurrent(mode, opened)
    \/ Controller
    \/ WorkerLoopTop
    \/ \E ev \in ReadOutcomes, d \in TimeSteps : WorkerReadLine(ev, d)
Spec == Init /\ [][Next]_vars

\* the end of a UI frame: notification(ctx), then minor_notification(ctx); each drops
\* a notification whose duration has elapsed, and minor_notification writes None to
\* self.notification.  The two flags say what start.elapsed() > duration gives for
\* the major and for the minor notification in this frame.
UiNotifications(major_elapsed, minor_elapsed) ==
    /\ pc = "idle"
    /\ ~start_connected
    /\ LET after_major == IF notification # None /\ major_elapsed THEN None
                          ELSE notification
       IN  notification' = IF minor_notification # None /\ minor_elapsed THEN None
                           ELSE after_major
    /\ UNCHANGED <<cfg_vars, call_vars, reader, parser_vars, values, console, paused,
                   inp_slots, minor_notification, pc, err, reader_vars, worker_vars,
                   device, last_t, reads_since_stop>>
    /\ UNCHANGED <<lock_vars, plot_vars>>

\* the session controller fed with lines of numbers
\* "1,1\n1,1\n1\n": lines of 2, 2 and 1 numeric fields
ScenarioA ==
    <<{"1"}, {","}, {"1"}, {LF}, {"1"}, {","}, {"1"}, {LF}, {"1"}, {LF}>>
InitApp == InitWith(ScenarioA)
NextApp ==
    \/ \E opened \in OpenResults : ConnectCurrent(Immediate, opened)
    \/ Controller
    \/ LoadConfig("dev", 8, 1, <<>>, 50, "Continous", "Auto", DefaultPlots)
    \/ WorkerLoopTop
    \/ \E ev \in ReadOutcomes, d \in TimeSteps : WorkerReadLine(ev, d)
SpecApp == InitApp /\ [][NextApp]_vars

\* scenario B: Delay(1000 ms), records completing at 500, 1200 and 1800 ms; every
\* record is blank or "x"; the queue is not polled
ScenarioBStep(te) ==
    CASE te = 0  -> {5}
      [] te = 5  -> {7}
      [] te = 12 -> {6}
      [] OTHER   -> {0}
InitDelay == InitWith([i \in 1..(MaxBytes + 2) |-> {"x", LF}])
NextDelay ==
    \/ ConnectCurrent(Delay(10), "Ok")
    \/ WorkerLoopTop
    \/ \E ev \in Bytes, d \in ScenarioBStep(t) : WorkerReadLine(ev, d)
    \/ DisconnectCurrent
    \/ StopReadJoin
SpecDelay == InitDelay /\ [][NextDelay]_vars

\* connecting: every start-up configuration (a saved configuration may hold any
\* data bits and stop bits), with and without --connect, every outcome of the open,
\* the device plugged in and out
ConfigDataBits == {4, 8, 9}
ConfigStopBits == {1, 3}
ConfigPorts == {NO_PORT, "dev"}
DeviceSets == {{}, {"dev"}}
ConnStream == <<{"1"}, {LF}>>
InitConn ==
    \E p \in ConfigPorts, dbits \in ConfigDataBits, sbits \in ConfigStopBits,
       connect \in BOOLEAN, available \in DeviceSets :
        /\ InitState(ConnStream, p, dbits, sbits, connect, available)
        /\ InitPlots("Continous", "Auto", DefaultPlots, 2)
NextConn ==
    \/ \E os \in OsResults : UpdateStartConnected(Immediate, os)
    \/ \E os \in OsResults : ConnectCurrent(Immediate, os)
    \/ \E p \in ConfigPorts, dbits \in DATA_BITS, sbits \in STOP_BITS :
           SelectConfig(p, dbits, sbits)
    \/ \E available \in DeviceSets : DevicesChange(available)
    \/ Controller
    \/ WorkerLoopTop
    \/ \E ev \in ReadOutcomes, d \in TimeSteps : WorkerReadLine(ev, d)
SpecConn == InitConn /\ [][NextConn]_vars

\* one SerialReader called directly: every order of new, open, begin_read, get_line
\* and drop, every data bits and stop bits value around the supported ones
ReaderDataBits == 4..10
ReaderStopBits == 0..3
ReaderStream == <<{"x"}, {LF}, {"x"}>>
InitReader == InitWith(ReaderStream)
NextReader ==
    \/ ReaderNew
    \/ \E dbits \in ReaderDataBits, sbits \in ReaderStopBits, os \in OsResults :
           ReaderOpen(dbits, sbits, os)
    \/ \E mode \in {Immediate, Message(<<"x">>)} : ReaderBeginRead(mode)
    \/ ReaderGetLine
    \/ ReaderDrop
    \/ StopReadJoin
    \/ WorkerLoopTop
    \/ \E ev \in ReadOutcomes, d \in TimeSteps : WorkerReadLine(ev, d)
SpecReader == InitReader /\ [][NextReader]_vars

\* the worker and the polling thread around the mutex of the queue: a session over
\* a device that sends "1" and line feeds, polled, disconnected and reconnected
LockStream == [i \in 1..MaxBytes |-> {"1", LF}]
InitLock == InitWith(LockStream)
NextLock ==
    \/ ConnectCurrent(Immediate, "Ok")
    \/ UpdateIdle
    \/ ReadInput
    \/ GetLineLock
    \/ GetLinePop
    \/ ErrorDisconnect
    \/ DisconnectCurrent
    \/ StopReadJoin
    \/ WorkerLoopTop
    \/ \E ev \in ReadOutcomes, d \in TimeSteps : WorkerReadLineToLock(ev, d)
    \/ WorkerLock
    \/ WorkerPush
SpecLock == InitLock /\ [][NextLock]_vars

\* the plot beside a session: a device that sends "1\n1\n1\n" without read errors,
\* its lines 0 or 900 ms apart, the window dragged between frames
PlotStream == <<{"1"}, {LF}, {"1"}, {LF}, {"1"}, {LF}>>
Windows == {0, 8, 9, 50}
InitPlot == InitWith(PlotStream)
NextPlot ==
    \/ ConnectCurrent(Immediate, "Ok")
    \/ UpdateIdle
    \/ ReadInput
    \/ ReadInputLoop
    \/ WorkerLoopTop
    \/ \E ev \in Bytes, d \in TimeSteps : WorkerReadLine(ev, d)
    \/ \E w \in Windows : SetWindow(w)
    \/ PlotContinous
SpecPlot == InitPlot /\ [][NextPlot]_vars

\* the windowing of a frame over every history of one series: up to CyMaxLen
\* samples at times up to CyMaxT in units of 100 ms, not decreasing, sample k
\* with value k; every window between 0 and CyMaxT + 1, both modes
CyMaxLen == 3
CyMaxT == 5
Histories(maxlen, maxt) ==
    {[k \in 1..Len(h) |-> <<h[k], k>>] :
        h \in {g \in UNION {[1..n -> 0..maxt] : n \in 0..maxlen} :
                  \A k \in 1..(Len(g) - 1) : g[k] <= g[k + 1]}}
InitCyclic ==
    \E h \in Histories(CyMaxLen, CyMaxT), w \in 0..(CyMaxT + 1), md \in PLOT_MODES :
        /\ InitSession(IF h = <<>> THEN <<>> ELSE <<h>>, <<>>, <<>>)
        /\ window = w
        /\ InitPlots(md, "Auto", DefaultPlots, 2)
NextCyclic ==
    \/ PlotContinous
    \/ PlotCyclic
    \/ \E w \in 0..(CyMaxT + 1) : SetWindow(w)
    \/ \E md \in PLOT_MODES : SetMode(md)
SpecCyclic == InitCyclic /\ [][NextCyclic]_vars

\* scenario C: a Cyclic window of 10 s over a history that spans 0 s .. 24 s; between
\* its first and last sample the history holds any of the samples of ScenarioCTimes
ScenarioCTimes == {100, 139, 140, 170, 199, 200, 201, 210, 220, 221}
ScenarioCHistories ==
    {LET times == {0, 240} \cup S
         InOrder(k) == CHOOSE tm \in times : Cardinality({u \in times : u < tm}) = k - 1
     IN  [k \in 1..Cardinality(times) |-> <<InOrder(k), k>>] :
        S \in SUBSET ScenarioCTimes}
InitScenarioC ==
    \E h \in ScenarioCHistories :
        /\ InitSession(<<h>>, <<>>, <<>>)
        /\ window = 100
        /\ InitPlots("Cyclic", "Auto", DefaultPlots, 2)
NextScenarioC == PlotCyclic
SpecScenarioC == InitScenarioC /\ [][NextScenarioC]_vars

\* the frames of a session that has stored two series, the scale mode, the window
\* and the pause switched between them, plots added and reset: started without a
\* configuration, or with a configuration that holds one plot, whose id is 2
AutoMaxValues ==
    <<<<<<0, 5>>, <<9, 1>>, <<18, 3>>>>, <<<<0, 9>>, <<9, 2>>, <<18, 4>>>>>>
AutoMaxWindows == {0, 9, 50}
StartPlots == {DefaultPlots, <<PlotDataNew(2)>>}
InitAutoMax ==
    \E ps \in StartPlots :
        /\ InitSession(AutoMaxValues, <<>>, <<>>)
        /\ window = 50
        /\ InitPlots("Continous", "Auto", ps, 2)
NextAutoMax ==
    \/ \E i \in 1..MaxPlots : Plot(i)
    \/ \E i \in 1..MaxPlots : ResetPlot(i)
    \/ AddPlot
    \/ \E sm \in {"Auto", "AutoMax"} : SetScaleMode(sm)
    \/ \E w \in AutoMaxWindows : SetWindow(w)
    \/ SetPaused
SpecAutoMax == InitAutoMax /\ [][NextAutoMax]_vars

\* the legend of the one plot of a session that has stored two series: the series
\* hidden and shown between the frames, the window and the scale mode changed
InitHidden ==
    /\ InitSession(AutoMaxValues, <<>>, <<>>)
    /\ window = 50
    /\ InitPlots("Continous", "AutoMax", DefaultPlots, 2)
NextHidden ==
    \/ \E i \in 1..MaxPlots : Plot(i)
    \/ \E k \in 1..2 : ToggleHidden(1, <<"Slot", k>>)
    \/ \E w \in AutoMaxWindows : SetWindow(w)
    \/ \E sm \in {"Auto", "AutoMax"} : SetScaleMode(sm)
    \/ \E md \in PLOT_MODES : SetMode(md)
SpecHidden == InitHidden /\ [][NextHidden]_vars

\* the console log at its cap: a session that starts with the log of earlier
\* sessions, 2, 1 or 0 lines short of STORED_LINES, reads "1\n1\n1\n", and is
\* paused, disconnected and reconnected
PreviousLog(n) == [k \in 1..n |-> <<k, <<"0">>>>]
InitConsole ==
    \E n \in (STORED_LINES - 2)..STORED_LINES :
        /\ InitSession(<<>>, PreviousLog(n), PlotStream)
        /\ window = 50
        /\ InitPlots("Continous", "Auto", DefaultPlots, 2)
NextConsole ==
    \/ ConnectCurrent(Immediate, "Ok")
    \/ Controller
    \/ WorkerLoopTop
    \/ \E ev \in Bytes \cup {ReadFail} : WorkerReadLine(ev, 9)
SpecConsole == InitConsole /\ [][NextConsole]_vars

\* the plot list from start-up on: main builds "Plot 1" (PLOT_ID becomes 2) and
\* with --config replaces the data by the file's; then plots are added and removed
\* and configurations are loaded
IdConfigs == {<<>>, DefaultPlots, <<PlotDataNew(1), PlotDataConsole(2)>>}
InitIds ==
    \E ps \in StartPlots :
        /\ InitState(<<>>, "dev", 8, 1, FALSE, {"dev"})
        /\ InitPlots("Continous", "Auto", ps, 2)
NextIds ==
    \/ AddPlot
    \/ AddConsole
    \/ \E i \in 1..MaxPlots : RemovePlot(i)
    \/ \E w \in AutoMaxWindows, md \in PLOT_MODES, sm \in SCALE_MODES, ps \in IdConfigs :
           LoadConfig("dev", 8, 1, <<>>, w, md, sm, ps)
SpecIds == InitIds /\ [][NextIds]_vars

\* the session controller with the notifications of the UI frame: the lines of
\* ScenarioA give a Warning (the third line's width), a read error or a failed
\* connect gives an Error
NextNotify ==
    \/ \E opened \in OpenResults : ConnectCurrent(Immediate, opened)
    \/ Controller
    \/ WorkerLoopTop
    \/ \E ev \in ReadOutcomes : WorkerReadLine(ev, 9)
    \/ \E major_elapsed, minor_elapsed \in BOOLEAN :
           UiNotifications(major_elapsed, minor_elapsed)
SpecNotify == InitApp /\ [][NextNotify]_vars

\* the parser alone, called with every line of at most MaxLine characters
ParserLines == UNION {[1..n -> {"1", ",", "x", " "}] : n \in 0..MaxLine}
ParseValuesCall(line) ==
    /\ ParserCall(line)
    /\ UNCHANGED <<cfg_vars, call_vars, reader, values, console, paused, inp_slots, notification,
                   minor_notification, pc, err, reader_vars, worker_vars, device,
                   last_t, reads_since_stop>>
    /\ UNCHANGED <<lock_vars, plot_vars>>
ResetCall ==
    /\ ParserReset
    /\ UNCHANGED <<cfg_vars, call_vars, reader, values, console, paused, inp_slots, notification,
                   minor_notification, pc, err, reader_vars, worker_vars, device,
                   last_t, reads_since_stop>>
    /\ UNCHANGED <<lock_vars, plot_vars>>
InitParser == InitWith(<<>>)
NextParser ==
    \/ \E line \in ParserLines : ParseValuesCall(line)
    \/ ResetCall
SpecParser == InitParser /\ [][NextParser]_vars

(***************************************************************************)
(* What the checks speak about.                                            *)
(***************************************************************************)
WorkerRunning == wpc \in {"loop", "read_line"}
\* this step appended one record to the queue
Pushed == Len(lines') = Len(lines) + 1
NewestQueued == lines'[Len(lines')]
\* this step took one record from the queue
Popped == Len(lines') = Len(lines) - 1

(***************************************************************************)
(* C1: once teardown (the stop_read of the dropped reader) has returned    *)
(* the worker thread has terminated, and no record is pushed to the queue  *)
(* while no reader exists.                                                 *)
(***************************************************************************)
C1_TeardownEndsWorker ==
    [][/\ reader' = "None" => ~WorkerRunning'
       /\ reader = "None" => ~Pushed]_vars

\* teardown has returned for a worker that made a device read after the stop request
C1_Witness ==
    /\ reader = "None"
    /\ pc = "idle"
    /\ stop
    /\ wpc = "done"
    /\ reads_since_stop > 0

(***************************************************************************)
(* C2: once the stop flag is set, the worker reaches its stop check after  *)
(* a bounded number of device reads (StopReadBound of them), whatever the  *)
(* device delivers.                                                        *)
(***************************************************************************)
C2_StopCheckedWithinBound ==
    (stop /\ wpc = "read_line") => reads_since_stop <= StopReadBound

(***************************************************************************)
(* C3: a device read that reports zero bytes, a non-text byte or an I/O    *)
(* failure makes the worker push exactly one Err and leave its loop, under *)
(* every start policy, triggered or not.                                   *)
(***************************************************************************)
C3_ReadFaultQueuesErr ==
    [][\A ev \in FaultOutcomes, d \in TimeSteps :
          WorkerReadLine(ev, d) =>
              /\ Pushed
              /\ NewestQueued.tag = "Err"
              /\ wpc' = "done"]_vars

(***************************************************************************)
(* C4: when a polling tick pops an Err, every record queued before it has  *)
(* been popped before it and none is left; the error is shown by one       *)
(* notification, set by that tick and by nothing else; and when the tick   *)
(* ends no reader exists, the sample store is empty and the schema is 0.   *)
(***************************************************************************)
C4_ErrPoppedDisconnects ==
    [][/\ (pc = "read_input" /\ pc' = "error") =>
              /\ Head(lines).tag = "Err"
              /\ lines' = <<>>
              /\ err' = [tag |-> "Some", e |-> Head(lines).e]
       /\ (pc = "error" /\ pc' # "error") =>
              /\ notification' = Error(<<"ReadError", err.e>>)
              /\ pc' = "stop_read"
       /\ (notification' # notification /\ notification'.text[1] = "ReadError") =>
              pc = "error"
       /\ (err # None /\ pc # "idle" /\ pc' = "idle") =>
              /\ reader' = "None"
              /\ ~IsConnected'
              /\ values' = <<>>
              /\ columns' = 0]_vars

\* a tick that had filled both series popped a read error and ended: the session is
\* idle and reset, the error is shown
C4_Witness ==
    /\ pc = "idle"
    /\ reader = "None"
    /\ notification = Error(<<"ReadError", "io">>)
    /\ Len(console) = 2
    /\ Len(inp_slots) = 2
    /\ values = <<>>
    /\ columns = 0

(***************************************************************************)
(* C5: once the start trigger has fired, every newline-terminated record   *)
(* the worker reads, blank or not, is pushed as exactly one Ok(Line) with  *)
(* its trimmed content, and the worker goes on with its loop.              *)
(***************************************************************************)
C5_EveryRecordQueuedOnce ==
    [][\A d \in TimeSteps :
          (started /\ WorkerReadLine(LF, d)) =>
              /\ Pushed
              /\ NewestQueued = OkLine(Timestamp(t', start_mode), Trim(line_buf))
              /\ wpc' = "loop"]_vars

(***************************************************************************)
(* C6: under Message(M) nothing is queued up to and including the first    *)
(* record whose trimmed content ends with M; the trigger fires on that     *)
(* record and on nothing else and stays fired; every record read after it  *)
(* is queued.                                                              *)
(***************************************************************************)
C6_MessageTrigger ==
    [][\A ev \in ReadOutcomes, d \in TimeSteps :
          (start_mode.mode = "Message" /\ WorkerReadLine(ev, d)) =>
              /\ ~started => ~Pushed
              /\ started' = (started \/ (ev = LF /\ EndsWith(Trim(line_buf),
                                                             start_mode.msg)))
              /\ (started /\ ev = LF) =>
                     /\ Pushed
                     /\ NewestQueued = OkLine(t', Trim(line_buf))]_vars

(***************************************************************************)
(* C7: under Delay(D) a record is queued only if its read completes at a   *)
(* raw elapsed time e >= D, with timestamp e - D >= 0; with D = 1000 ms and *)
(* records completing at 500, 1200 and 1800 ms exactly two lines are       *)
(* reported, with timestamps 0.2 s and 0.8 s.                               *)
(***************************************************************************)
C7_DelayGate ==
    [][start_mode.mode = "Delay" =>
          /\ (Pushed /\ NewestQueued.tag = "Ok") =>
                 /\ t' >= start_mode.delay
                 /\ NewestQueued.t = t' - start_mode.delay
                 /\ NewestQueued.t >= 0
          /\ (start_mode = Delay(10) /\ t = 12 /\ t' = 18) =>
                 /\ Len(lines') = 2
                 /\ lines'[1].tag = "Ok" /\ lines'[1].t = 2
                 /\ lines'[2].tag = "Ok" /\ lines'[2].t = 8]_vars

(***************************************************************************)
(* C8: the timestamps of the lines that successive get_line calls of a     *)
(* session return are >= 0 and non-decreasing, under every start policy.   *)
(***************************************************************************)
C8_TimestampsNonDecreasing ==
    [][reader = "Some" =>
          /\ last_t' >= last_t
          /\ last_t' >= 0
          /\ \A i, j \in 1..Len(lines') :
                 (i < j /\ lines'[i].tag = "Ok" /\ lines'[j].tag = "Ok") =>
                     lines'[i].t <= lines'[j].t
          /\ (lines' # <<>> /\ lines'[1].tag = "Ok") => lines'[1].t >= last_t']_vars

\* get_line has returned a line stamped 900 ms and the next one is stamped later
C8_Witness ==
    /\ reader = "Some"
    /\ last_t = 9
    /\ lines # <<>>
    /\ lines[1].tag = "Ok"
    /\ lines[1].t > last_t

(***************************************************************************)
(* Schema inference.                                                       *)
(***************************************************************************)
\* this step is a parse_values call
ParseStep == parsed' # None /\ parsed' # parsed
\* the tuple of a line
TupleOf(line) == OkValues(ParsedFields(SplitComma(line, <<>>)))

(***************************************************************************)
(* C9 as stated: the first line parsed by a fresh or reset parser, with N  *)
(* numeric fields, fixes the schema to N, N = 0 included; a later line     *)
(* with M # N fields returns ColumnMismatch(N, M) and leaves the schema,   *)
(* a later line with N fields returns its tuple.                           *)
(***************************************************************************)
C9_FirstLineFixesSchema ==
    [][ParseStep =>
          LET m == NumericFields(parsed'.line)
          IN  /\ first_n = -1 => columns' = m /\ parsed'.result = TupleOf(parsed'.line)
              /\ (first_n # -1 /\ m # first_n) =>
                     /\ parsed'.result = ColumnMismatch(first_n, m)
                     /\ columns' = columns
              /\ (first_n # -1 /\ m = first_n) =>
                     parsed'.result = TupleOf(parsed'.line)]_vars

(***************************************************************************)
(* C9 amended: the first line with N >= 1 numeric fields parsed by a fresh *)
(* or reset parser fixes the schema to N; a later line with M # N fields   *)
(* returns ColumnMismatch(N, M) and leaves the schema, a later line with N *)
(* fields returns its tuple; a line without numeric fields parsed before   *)
(* that returns the empty tuple and leaves the schema at 0, not fixed.     *)
(***************************************************************************)
C9_FirstNumericLineFixesSchema ==
    [][ParseStep =>
          LET m == NumericFields(parsed'.line)
          IN  /\ schema_n = -1 =>
                     /\ columns = 0
                     /\ columns' = m
                     /\ parsed'.result = TupleOf(parsed'.line)
              /\ (schema_n # -1 /\ m # schema_n) =>
                     /\ parsed'.result = ColumnMismatch(schema_n, m)
                     /\ columns' = columns
                     /\ columns = schema_n
              /\ (schema_n # -1 /\ m = schema_n) =>
                     /\ parsed'.result = TupleOf(parsed'.line)
                     /\ columns' = schema_n]_vars

\* a line without numeric fields came first, "1,1" then fixed the schema to 2, and
\* a line with one field has just been refused
C9_Witness ==
    /\ first_n = 0
    /\ schema_n = 2
    /\ columns = 2
    /\ parsed # None
    /\ parsed.result = ColumnMismatch(2, 1)

(***************************************************************************)
(* C10: a line that yields ColumnMismatch in a polling tick appends no     *)
(* sample, leaves the schema, raises a warning and nothing else, and does  *)
(* not disconnect; its raw text is still added to the console log; a line  *)
(* with the right column count is appended to every series.                *)
(***************************************************************************)
C10_MismatchIsOnlyAWarning ==
    [][(pc = "read_input" /\ Popped /\ ~paused /\ lines[1].tag = "Ok"
            /\ columns # 0) =>
          LET line == lines[1]
              m == NumericFields(line.content)
          IN  /\ m # columns =>
                     /\ values' = values
                     /\ columns' = columns
                     /\ minor_notification' =
                            Warning(<<"ColumnMismatch", columns, m>>)
                     /\ notification' = notification
                     /\ pc' = "read_input"
                     /\ reader' = "Some" /\ IsConnected'
                     /\ stop' = stop
                     /\ console' = Append(console, <<line.t, line.content>>)
              /\ m = columns =>
                     /\ Len(values') = columns
                     /\ \A i \in 1..columns :
                            /\ Len(values'[i]) = Len(values[i]) + 1
                            /\ values'[i][Len(values'[i])][1] = line.t
                     /\ minor_notification' = minor_notification]_vars

\* scenario A: after lines with 2, 2 and 1 numeric fields the third has been refused
\* with ColumnMismatch(2, 1), both series keep 2 samples, the log holds all three lines
C10_Witness ==
    /\ IsConnected
    /\ minor_notification = Warning(<<"ColumnMismatch", 2, 1>>)
    /\ columns = 2
    /\ Len(values) = 2
    /\ Len(values[1]) = 2
    /\ Len(values[2]) = 2
    /\ Len(console) = 3
    /\ console[3][2] = <<"1">>

(***************************************************************************)
(* C11: a connect takes effect only when no reader exists and the selected *)
(* device is not the placeholder: a reader comes to exist only with a      *)
(* device selected, and while a reader exists no step opens a device,      *)
(* starts a worker or replaces the reader.                                 *)
(***************************************************************************)
C11_ConnectOnlyIdleWithDevice ==
    [][/\ (reader = "None" /\ reader' = "Some") => conn_port' # NO_PORT
       /\ reader = "Some" =>
              /\ start_mode' = start_mode
              /\ worker_thread' = worker_thread \/ reader' = "None"
              /\ port' # "reader"
              /\ wpc = "done" => wpc' = "done"]_vars

(***************************************************************************)
(* C12: when open or begin_read fails during a connect, the reader's error *)
(* is what the caller surfaces and the session stays Idle: no reader is    *)
(* stored, no worker runs, no device handle is held, and the sample store, *)
(* the schema and the paused flag are as before.                           *)
(***************************************************************************)
C12_FailedConnectStaysIdle ==
    [][\A os \in OsResults :
          LET r == ConnectCurrentResult(os)
          IN  (r.tag = "Err" /\ (\/ ConnectCurrent(Immediate, os)
                                 \/ UpdateStartConnected(Immediate, os))) =>
                  /\ notification'.tag = "Error"
                  /\ notification'.text[Len(notification'.text)] = r.e
                  /\ reader' = "None"
                  /\ ~worker_thread'
                  /\ ~WorkerRunning'
                  /\ port' = "None"
                  /\ values' = values
                  /\ columns' = columns
                  /\ paused' = paused]_vars

\* after a session that logged a line, a Connect click whose open succeeded but whose
\* DTR write failed has left the session idle
C12_Witness ==
    /\ notification = Error(<<"Could not connect!", "WriteDtrError">>)
    /\ console # <<>>
    /\ reader = "None"
    /\ port = "None"
    /\ ~worker_thread

(***************************************************************************)
(* C13: when a disconnect ends, the worker has been joined, no reader      *)
(* exists, the schema is 0 and the sample store is empty; the first line   *)
(* parsed by the next connection is accepted with whatever column count it *)
(* has; disconnect_current without a reader changes nothing of the         *)
(* session.                                                                *)
(***************************************************************************)
C13_DisconnectResets ==
    [][/\ (pc = "stop_read" /\ pc' = "idle") =>
              /\ wpc = "done"
              /\ ~WorkerRunning'
              /\ reader' = "None"
              /\ ~IsConnected'
              /\ columns' = 0
              /\ values' = <<>>
       /\ (pc = "read_input" /\ Popped /\ ~paused /\ lines[1].tag = "Ok"
               /\ first_n = -1) =>
              LET n == NumericFields(lines[1].content)
              IN  /\ parsed'.result = TupleOf(lines[1].content)
                  /\ columns' = n
                  /\ Len(values') = n
                  /\ \A i \in 1..n : Len(values'[i]) = 1
       /\ (reader = "None" /\ LoadConfig("dev", 8, 1, <<>>, 50, "Continous", "Auto", DefaultPlots)) =>
              UNCHANGED <<reader, columns, values, paused, console, pc,
                          reader_vars, worker_vars>>]_vars

\* the first connection logged "1,1" under schema 2 and was disconnected; the next
\* connection's first line "1" has been accepted and is the only sample
C13_Witness ==
    /\ reader = "Some"
    /\ Len(console) = 2
    /\ console[1][2] = <<"1", ",", "1">>
    /\ console[2][2] = <<"1">>
    /\ first_n = 1
    /\ columns = 1
    /\ Len(values) = 1
    /\ Len(values[1]) = 1

(***************************************************************************)
(* C14: open() on a closed reader returns UnsupportedDataBits for exactly  *)
(* the data bits outside 5..9 and UnsupportedStopBits for exactly the stop *)
(* bits outside 1..2 (the data bits being supported), in both cases before *)
(* the OS is asked to open the device and with no handle held afterwards;  *)
(* data bits in 5..9 with stop bits 1 or 2 pass this validation.           *)
(***************************************************************************)
C14_OpenValidatesConfig ==
    [][\A dbits \in ReaderDataBits, sbits \in ReaderStopBits, os \in OsResults :
          (~IsOpen /\ ReaderOpen(dbits, sbits, os)) =>
              /\ dbits \notin 5..9 =>
                     /\ ret'.result = ErrS(UnsupportedDataBits(dbits))
                     /\ ~ret'.io
                     /\ port' = "None"
              /\ (dbits \in 5..9 /\ sbits \notin 1..2) =>
                     /\ ret'.result = ErrS(UnsupportedStopBits(sbits))
                     /\ ~ret'.io
                     /\ port' = "None"
              /\ (dbits \in 5..9 /\ sbits \in 1..2) =>
                     /\ ret'.io
                     /\ ret'.result = IF os = "Ok" THEN OkUnit ELSE ErrS(os)]_vars

(***************************************************************************)
(* C15: open() on a reader that holds a handle or has a worker returns     *)
(* AlreadyOpen; begin_read() on a reader that has a worker returns         *)
(* AlreadyReading; begin_read() on a reader with neither returns           *)
(* PortNotOpen; each leaves handle, worker, stop flag and queue unchanged. *)
(***************************************************************************)
C15_SessionErrors ==
    [][/\ \A dbits \in ReaderDataBits, sbits \in ReaderStopBits, os \in OsResults :
              (IsOpen /\ ReaderOpen(dbits, sbits, os)) =>
                  /\ ret'.result = ErrS("AlreadyOpen")
                  /\ ~ret'.io
                  /\ UNCHANGED <<reader_vars, worker_vars>>
       /\ \A mode \in StartModes :
              ReaderBeginRead(mode) =>
                  /\ worker_thread =>
                         /\ ret'.result = ErrS("AlreadyReading")
                         /\ UNCHANGED <<reader_vars, worker_vars>>
                  /\ (~worker_thread /\ port # "reader") =>
                         /\ ret'.result = ErrS("PortNotOpen")
                         /\ UNCHANGED <<reader_vars, worker_vars>>]_vars

\* begin_read has been refused on a reader whose worker has queued a line
C15_Witness ==
    /\ ret = [call |-> "begin_read", result |-> ErrS("AlreadyReading")]
    /\ worker_thread
    /\ lines # <<>>

(***************************************************************************)
(* C16: at most one worker thread is alive: a worker is spawned, by a      *)
(* connect or by begin_read, only while no worker is alive and the reader  *)
(* has none, and a reader that has a worker keeps it until the reader is   *)
(* dropped, which joins it.                                                *)
(***************************************************************************)
C16_OneWorkerAtATime ==
    [][/\ \A mode \in StartModes, os \in OsResults :
              (/\ ConnectCurrentResult(os).tag = "Ok"
               /\ \/ ConnectCurrent(mode, os)
                  \/ UpdateStartConnected(mode, os)) =>
                  /\ ~WorkerRunning
                  /\ ~worker_thread
                  /\ reader = "None"
       /\ \A mode \in StartModes :
              (ReaderBeginRead(mode) /\ ret'.result = OkUnit) =>
                  /\ ~WorkerRunning
                  /\ ~worker_thread
       /\ (worker_thread /\ ~worker_thread') => (reader' = "None" /\ wpc = "done")
       /\ (worker_thread /\ worker_thread' /\ wpc = "done") => wpc' = "done"]_vars

\* the worker of a second connection is reading after the first connection ended
\* with a read error and its worker was joined
C16_Witness ==
    /\ notification = Error(<<"ReadError", "io">>)
    /\ reader = "Some"
    /\ worker_thread
    /\ wpc = "read_line"
    /\ ~stop

(***************************************************************************)
(* C17: the worker appends at the back of the queue and get_line returns   *)
(* the oldest record, or nothing when the queue is empty; a polling tick   *)
(* goes on popping until get_line returns nothing or an Err, so it ends    *)
(* with the queue empty or with the Err popped.                            *)
(***************************************************************************)
C17_OldestFirstUntilEmpty ==
    [][/\ \A ev \in ReadOutcomes, d \in TimeSteps :
              (WorkerReadLine(ev, d) /\ lines' # lines) =>
                  /\ Pushed
                  /\ SubSeq(lines', 1, Len(lines)) = lines
       /\ ReadInputLoop =>
              /\ lines = <<>> => (lines' = <<>> /\ pc' = "idle")
              /\ lines # <<>> =>
                     /\ lines' = Tail(lines)
                     /\ Head(lines).tag = "Ok" =>
                            (pc' = "read_input" /\ last_t' = Head(lines).t)
                     /\ Head(lines).tag = "Err" =>
                            (pc' = "error" /\ err'.e = Head(lines).e)
       /\ (pc = "read_input" /\ pc' = "idle") => lines = <<>>
       /\ (pc = "read_input" /\ pc' = "error") => Head(lines).tag = "Err"
       /\ pc = "read_input" => pc' \in {"read_input", "idle", "error"}]_vars

\* a tick has popped and logged the oldest record while a line and an Err, queued
\* behind it, are still to be popped
C17_Witness ==
    /\ pc = "read_input"
    /\ Len(console) = 1
    /\ last_t = console[1][1]
    /\ Len(lines) = 2
    /\ lines[1].tag = "Ok"
    /\ lines[1].t >= last_t
    /\ lines[2].tag = "Err"

\* C18: the worker holds the mutex of the queue only from its lock() to the one
\* push_back that follows, the polling thread only from get_line's lock() to its one
\* pop_front; no port.read happens under the worker's guard and the join happens
\* under no guard, so a get_line that waits, waits for a push, and a worker that
\* waits for the mutex during teardown does not wait at all
C18_LockOnlyAroundPushAndPop ==
    /\ [](/\ lock = "worker" => wpc = "push"
          /\ lock = "poll" => pc = "get_line"
          /\ (pc = "read_input" /\ lock # "free") => (lock = "worker" /\ wpc = "push")
          /\ (pc = "stop_read" /\ wpc = "lock") => lock = "free")
    /\ [][/\ (lock = "worker" /\ wpc' # wpc) =>
                (lock' = "free" /\ lines' = Append(lines, pending))
          /\ (lock = "poll" /\ pc' # pc) =>
                (lock' = "free" /\ lines' = GetLine(lines).rest)
          /\ device' # device => lock # "worker"
          /\ (worker_thread /\ ~worker_thread') => lock = "free"]_vars
C18_Witness == pc = "read_input" /\ lock = "worker" /\ wpc = "push"

\* C19: the store holds one series per column of the schema, and all series hold the
\* same number of samples at the same timestamps; a line that parses to the tuple
\* v_1 .. v_n at time t appends <<t, v_i>> to series i, for every i up to n and to no
\* other series, and nothing else changes the store except its clearing at teardown
AppendedTuple(tm, tuple) ==
    /\ Len(values') = Len(tuple)
    /\ Len(values) <= Len(tuple)
    /\ \A i \in 1..Len(tuple) :
           values'[i] = Append(IF i <= Len(values) THEN values[i] ELSE <<>>,
                               <<tm, tuple[i]>>)
C19_SeriesGrowTogether ==
    /\ [](/\ Len(values) = columns
          /\ \A i, j \in 1..Len(values) :
                 /\ Len(values[i]) = Len(values[j])
                 /\ \A k \in 1..Len(values[i]) : values[i][k][1] = values[j][k][1])
    /\ [][/\ values' # values =>
                \/ values' = <<>>
                \/ /\ pc = "read_input" /\ lines # <<>> /\ Head(lines).tag = "Ok"
                   /\ parsed'.result.tag = "Ok"
                   /\ AppendedTuple(Head(lines).t, parsed'.result.values)
          /\ (/\ ReadInputLoop /\ lines # <<>> /\ Head(lines).tag = "Ok" /\ ~paused
              /\ parsed'.result.tag = "Ok") =>
                AppendedTuple(Head(lines).t, parsed'.result.values)]_vars
C19_Witness ==
    /\ pc = "idle" /\ columns = 2 /\ Len(values) = 2
    /\ Len(values[1]) = 2 /\ Len(values[2]) = 2
    /\ values[1][1][1] # values[1][2][1]

\* C20: in Continous mode a frame draws, of each series, exactly the samples whose
\* time is at most the window behind the time T of the series' last sample, in the
\* order of the history; for the same history a smaller window shows no sample the
\* larger one does not show
InWindowIndices(vals, w) ==
    {k \in 1..Len(vals) : vals[Len(vals)][1] - vals[k][1] <= w}
C20_ContinousWindow ==
    [][PlotContinous =>
        \A i \in 1..Len(visible') :
            LET keep == InWindowIndices(values[i], window)
            IN  /\ Len(visible'[i]) = Cardinality(keep)
                /\ \A k \in keep :
                       visible'[i][Cardinality({j \in keep : j <= k})] = values[i][k]
                /\ \A w \in Windows : w <= window =>
                       \A k \in 1..Len(values[i]) :
                           (\E m \in 1..Len(Continous(values[i], w)) :
                                Continous(values[i], w)[m] = values[i][k])
                           => k \in keep]_vars
C20_Witness ==
    /\ Len(visible) = 1 /\ Len(values) = 1 /\ Len(values[1]) = 3
    /\ visible[1] = Continous(values[1], window)
    /\ Len(visible[1]) = 2
    /\ TNow(values[1]) - visible[1][1][1] = window

\* C21: in Cyclic mode with a window W > 0, with sub = t_now mod W, split = t_now -
\* sub and start = split - (W - sub), a frame draws of each series the samples with
\* t > split at their own time, in history order, and after them the samples with
\* start <= t < split, in history order, each at t + W; nothing else is drawn
Rank(S, k) == Cardinality({j \in S : j <= k})
C21_CyclicWindow ==
    [][(PlotCyclic /\ window > 0) =>
        \A i \in 1..Len(visible') :
            LET vals == values[i]
                t_now == vals[Len(vals)][1]
                sub == t_now % window
                split == t_now - sub
                start == split - (window - sub)
                new == {k \in 1..Len(vals) : vals[k][1] > split}
                old == {k \in 1..Len(vals) : start <= vals[k][1] /\ vals[k][1] < split}
            IN  /\ Len(visible'[i]) = Cardinality(new) + Cardinality(old)
                /\ \A k \in new : visible'[i][Rank(new, k)] = vals[k]
                /\ \A k \in old :
                       visible'[i][Cardinality(new) + Rank(old, k)] =
                           <<vals[k][1] + window, vals[k][2]>>]_vars
C21_Witness ==
    /\ plot_mode = "Cyclic" /\ window = 2 /\ Len(values) = 1 /\ Len(visible) = 1
    /\ values[1] = <<<<0, 1>>, <<3, 2>>, <<5, 3>>>>
    /\ visible[1] = <<<<5, 3>>, <<5, 2>>>>

\* what a frame shows of a series when the samples later than lo, up to hi, stay at
\* their time and the samples from from_t to before lo move on by w
ShownAs(shown, vals, lo, hi, from_t, w) ==
    LET new == {k \in 1..Len(vals) : lo < vals[k][1] /\ vals[k][1] <= hi}
        old == {k \in 1..Len(vals) : from_t <= vals[k][1] /\ vals[k][1] < lo}
    IN  /\ Len(shown) = Cardinality(new) + Cardinality(old)
        /\ \A k \in new : shown[Rank(new, k)] = vals[k]
        /\ \A k \in old :
               shown[Cardinality(new) + Rank(old, k)] = <<vals[k][1] + w, vals[k][2]>>

\* C22 as stated: with a Cyclic window of 10 s and a history spanning 0 s .. 24 s, the
\* frame at t_now = 24 s shows the samples of (22, 24] at their time and the samples
\* of [14, 22) moved on by 10 s
C22_ScenarioCAsStated ==
    [][PlotCyclic => ShownAs(visible'[1], values[1], 220, 240, 140, 100)]_vars

\* C22 amended: the frame shows the samples of (20, 24] at their time and the
\* samples of [14, 20) moved on by 10 s, into [24, 30)
C22_ScenarioC ==
    [][PlotCyclic =>
        /\ ShownAs(visible'[1], values[1], 200, 240, 140, 100)
        /\ \A k \in 1..Len(visible'[1]) :
               \/ 200 < visible'[1][k][1] /\ visible'[1][k][1] <= 240
               \/ 240 <= visible'[1][k][1] /\ visible'[1][k][1] < 300]_vars
C22_Witness ==
    /\ window = 100 /\ plot_mode = "Cyclic" /\ Len(visible) = 1
    /\ TNow(values[1]) = 240
    /\ \E k \in 1..Len(visible[1]) : visible[1][k][1] = 210
    /\ \E k \in 1..Len(visible[1]) : visible[1][k][1] = 299
    /\ \E k \in 1..Len(values[1]) : values[1][k][1] = 200

\* the number of samples of the new sweep among those a Cyclic frame shows
NewSweep(vals, w) ==
    Cardinality({k \in 1..Len(vals) : vals[k][1] > TNow(vals) - (TNow(vals) % w)})

\* C23 as stated: in a Cyclic frame every sample of the old sweep is shown at a time
\* smaller than that of every sample of the new sweep
C23_OldSweepLeftOfNew ==
    [][(PlotCyclic /\ window > 0) =>
        \A i \in 1..Len(visible') :
            \A n \in 1..NewSweep(values[i], window) :
                \A o \in (NewSweep(values[i], window) + 1)..Len(visible'[i]) :
                    visible'[i][o][1] < visible'[i][n][1]]_vars

\* C23 amended: in a Cyclic frame every sample of the old sweep is shown at t_now or
\* later and every sample of the new sweep at t_now or earlier, so the old sweep
\* lies to the right of the new one, and all shown times lie within the one span
\* from split to split + W
C23_OldSweepRightOfNew ==
    [][(PlotCyclic /\ window > 0) =>
        \A i \in 1..Len(visible') :
            LET t_now == TNow(values[i])
                split == t_now - (t_now % window)
                new == NewSweep(values[i], window)
            IN  /\ \A n \in 1..new :
                       split < visible'[i][n][1] /\ visible'[i][n][1] <= t_now
                /\ \A o \in (new + 1)..Len(visible'[i]) :
                       t_now <= visible'[i][o][1] /\ visible'[i][o][1] < split + window]_vars
C23_Witness ==
    /\ plot_mode = "Cyclic" /\ window = 3 /\ Len(values) = 1 /\ Len(visible) = 1
    /\ values[1] = <<<<2, 1>>, <<4, 2>>, <<5, 3>>>>
    /\ visible[1] = <<<<4, 2>>, <<5, 3>>, <<5, 1>>>>

\* C24: while a plot stays in the list and is not reset, the accumulator of AutoMax
\* that belongs to it does not narrow: its min does not increase and its max does
\* not decrease; the first query after a reset of the plot leaves in the accumulator
\* the min and max that this query alone has observed
RangeOf(ranges, id) == {r \in ranges : r[1] = id}
C24_AccumulatorOnlyWidens ==
    [][\A i \in 1..Len(plots) :
          /\ (/\ i <= Len(plots') /\ plots'[i].id = plots[i].id
              /\ ~plots[i].console /\ ~ResetPlot(i)) =>
                \A r \in RangeOf(plot_ranges, plots[i].id) :
                    \E q \in RangeOf(plot_ranges', plots[i].id) :
                        q[2] <= r[2] /\ q[3] >= r[3]
          /\ (/\ Plot(i) /\ scale_mode = "AutoMax" /\ ~paused
              /\ RangeOf(plot_ranges, plots[i].id) = {}) =>
                RangeOf(plot_ranges', plots[i].id) =
                    {<<plots[i].id, observed'.min, observed'.max>>}]_vars

\* C25: the min and max a frame observes in AutoMax for a plot are those of the
\* shown points of the series that are not hidden in that plot, so a hidden series
\* adds nothing to them; hiding or showing a series, and drawing a frame, leave
\* the stored samples of every series as they are
C25_HiddenSeriesDoNotCount ==
    [][/\ \A i \in 1..Len(plots) :
             (Plot(i) /\ scale_mode = "AutoMax") =>
                LET pts == {visible'[k][m][2] :
                               <<k, m>> \in {km \in (1..Len(visible')) \X (1..Len(values[1])) :
                                   /\ km[2] <= Len(visible'[km[1]])
                                   /\ <<plots[i].id, inp_slots[km[1]].name>>
                                          \notin hidden_items}}
                IN  /\ \A v \in pts : observed'.min <= v /\ v <= observed'.max
                    /\ pts # {} => observed'.min \in pts /\ observed'.max \in pts
                    /\ pts = {} => observed'.min = F64_MAX /\ observed'.max = F64_MIN
       /\ hidden_items' # hidden_items => values' = values
       /\ visible' # visible => values' = values]_vars
C25_Witness ==
    /\ scale_mode = "AutoMax" /\ window = 50 /\ plot_mode = "Continous"
    /\ hidden_items = {<<1, <<"Slot", 2>>>>}
    /\ observed # None /\ observed.min = 1 /\ observed.max = 5
    /\ Len(visible) = 2 /\ Len(visible[2]) = 3

\* C26: the console log holds at most STORED_LINES lines; the log changes only when
\* the tick handles a line, which is appended, and when the log was full exactly its
\* oldest line is gone and the others keep their order; the clearing of the samples
\* at a disconnect leaves the log as it is
C26_ConsoleLogCapped ==
    /\ [](Len(console) <= STORED_LINES)
    /\ [][/\ console' # console =>
                /\ pc = "read_input" /\ lines # <<>> /\ Head(lines).tag = "Ok"
                /\ LET e == <<Head(lines).t, Head(lines).content>>
                       n == Len(console)
                   IN  IF n = STORED_LINES
                       THEN /\ Len(console') = STORED_LINES
                            /\ \A k \in 1..(n - 1) : console'[k] = console[k + 1]
                            /\ console'[n] = e
                       ELSE /\ Len(console') = n + 1
                            /\ \A k \in 1..n : console'[k] = console[k]
                            /\ console'[n + 1] = e
          /\ (ReadInputLoop /\ lines # <<>> /\ Head(lines).tag = "Ok" /\ ~paused) =>
                console' # console
          /\ (StopReadJoin \/ DisconnectCurrent \/ ErrorDisconnect) =>
                console' = console]_vars
C26_Witness ==
    /\ Len(console) = STORED_LINES
    /\ console[1] = <<3, <<"0">>>>
    /\ console[STORED_LINES][2] = <<"1">>
    /\ reader = "None" /\ values = <<>>

\* C27: slot i is created when the schema width first exceeds i, with index i and the
\* name "Slot i+1"; slots are never removed one at a time; when the session
\* disconnects the whole slot list is cleared
C27_SlotsClearedOnDisconnect ==
    /\ [](\A k \in 1..Len(inp_slots) :
              inp_slots[k] = [index |-> k - 1, name |-> <<"Slot", k>>])
    /\ [][/\ Len(inp_slots') > Len(inp_slots) => Len(inp_slots') = columns
          /\ Len(inp_slots') < Len(inp_slots) => inp_slots' = <<>>
          /\ (reader # "None" /\ reader' = "None") => inp_slots' = <<>>]_vars

\* C28: after a configuration was loaded, by Load Config or by --config at
\* start-up, a plot that add_plot or add_console creates gets an id that no plot of
\* the plot list has
C28_NewPlotIdsAreFresh ==
    [][(AddPlot \/ AddConsole) =>
          \A k \in 1..Len(plots) : plots[k].id # plot_id]_vars

\* C29: a session that is Idle, after a failed connect or a fatal read error as after
\* anything else, gets a reader, a worker or a handle only by the Connect button or
\* by the start-up connect; the start-up connect is tried on the first update only:
\* the try clears start_connected whatever its result, and nothing sets it again
C29_NoRetry ==
    [][/\ (\/ reader = "None" /\ reader' = "Some"
           \/ ~worker_thread /\ worker_thread'
           \/ port = "None" /\ port' # "None") =>
              \/ \E os \in OsResults : ConnectCurrent(Immediate, os)
              \/ start_connected /\ ~start_connected'
       /\ ~start_connected => ~start_connected'
       /\ (start_connected /\ (reader' # reader \/ notification' # notification)) =>
              ~start_connected'
       /\ (UpdateIdle \/ ReadInput \/ ReadInputLoop \/ ErrorDisconnect \/ StopReadJoin) =>
              /\ reader' = "Some" => reader = "Some"
              /\ port' = port
              /\ worker_thread' => worker_thread]_vars
C29_Witness ==
    /\ notification.tag = "Error"
    /\ notification.text[1] = "ReadError"
    /\ reader = "None"
    /\ pc = "idle"
    /\ ~worker_thread
    /\ conn_port # NO_PORT

\* the three states of a SerialReader, by its fields port and worker_thread
StateClosed == SelfPort = "None" /\ ~worker_thread
StateOpen == SelfPort = "reader" /\ ~worker_thread
StateReading == SelfPort = "None" /\ worker_thread

\* C30: a SerialReader is Closed, Open or Reading and never holds the handle and a
\* worker together; an open that succeeds takes it from Closed to Open, a begin_read
\* that succeeds from Open to Reading; a reader that has a worker keeps it for as
\* long as it lives and never has the handle again: the worker's handle is closed
\* by the worker and goes nowhere else
C30_ReaderStates ==
    /\ [](reader = "Some" => (StateClosed \/ StateOpen \/ StateReading))
    /\ [](~(SelfPort = "reader" /\ worker_thread))
    /\ [][/\ (ret' # ret /\ ret'.call = "open" /\ ret'.result = OkUnit) =>
                StateClosed /\ StateOpen'
          /\ (ret' # ret /\ ret'.call = "begin_read" /\ ret'.result = OkUnit) =>
                StateOpen /\ StateReading' /\ port' = "worker"
          /\ (reader = "Some" /\ worker_thread /\ reader' = "Some") =>
                /\ worker_thread'
                /\ port' # "reader"
          /\ port = "worker" => port' \in {"worker", "None"}]_vars
C30_Witness ==
    /\ reader = "Some"
    /\ StateReading
    /\ port = "worker"
    /\ ret = [call |-> "begin_read", result |-> OkUnit]
    /\ lines # <<>>

\* C31: the worker leaves its loop only when it saw the stop flag or right after it
\* pushed an Err; so the worker is never terminated while no stop was requested, no
\* Err is queued or being handled, and the application reports the session connected
C31_WorkerEndsOnlyByStopOrErr ==
    /\ [][(wpc # "done" /\ wpc' = "done") =>
              \/ stop
              \/ Pushed /\ NewestQueued.tag = "Err"]_vars
    /\ [](~(/\ wpc = "done"
            /\ ~stop
            /\ \A k \in 1..Len(lines) : lines[k].tag # "Err"
            /\ pc \notin {"error", "stop_read"}
            /\ IsConnected))

\* C32: the line queue of a reader holds at most one Err, and an Err it holds is its
\* last element: the worker pushes nothing after an Err
C32_ErrIsLastInQueue ==
    /\ [](\A k \in 1..Len(lines) : lines[k].tag = "Err" => k = Len(lines))
    /\ [][(lines # <<>> /\ lines[Len(lines)].tag = "Err") => ~Pushed]_vars
C32_Witness ==
    /\ Len(lines) >= 2
    /\ lines[Len(lines)].tag = "Err"
    /\ lines[1].tag = "Ok"
    /\ wpc = "done"

\* C33: whenever the application has no reader, the sample store is empty and the
\* parser has no schema (columns is 0), whatever connects, ticks, pauses,
\* disconnects and configuration loads came before
C33_IdleIsEmpty ==
    reader = "None" => (values = <<>> /\ columns = 0 /\ first_n = -1)
C33_Witness ==
    /\ reader = "None"
    /\ pc = "idle"
    /\ notification = Info(<<"Loaded config">>)
    /\ Len(console) = 3
    /\ values = <<>>
    /\ columns = 0

\* C34: while paused, a tick pops each queued Ok line and drops it: samples, schema
\* and console log stay as they are and the line is gone from the queue, so nothing
\* delivers it later (samples and log lines are added only while not paused); an Err
\* popped while paused goes to error() and from there to the disconnect; a connect
\* that succeeds and a disconnect both leave paused cleared
C34_PausedDiscards ==
    [][/\ (ReadInputLoop /\ paused /\ lines # <<>> /\ Head(lines).tag = "Ok") =>
              /\ lines' = Tail(lines)
              /\ pc' = "read_input"
              /\ UNCHANGED <<values, parser_vars, console>>
       /\ (console' # console \/ (values' # values /\ values' # <<>>)) => ~paused
       /\ (ReadInputLoop /\ paused /\ lines # <<>> /\ Head(lines).tag = "Err") =>
              /\ lines' = Tail(lines)
              /\ pc' = "error"
       /\ (pc = "error" /\ pc' # "error") => (pc' = "stop_read" /\ stop')
       /\ (pc = "stop_read" /\ pc' # "stop_read") => (reader' = "None" /\ pc' = "idle")
       /\ (reader = "None" /\ reader' = "Some") => ~paused'
       /\ (reader = "Some" /\ reader' = "None") => ~paused']_vars
C34_Witness ==
    /\ paused
    /\ reader = "Some"
    /\ pc = "idle"
    /\ device = <<>>
    /\ Len(lines) = 0
    /\ Len(console) = 1
    /\ Len(values) = 2
    /\ Len(values[1]) = 1
    /\ last_t > values[1][1][1]

\* C35: a major notification stays until its own duration has elapsed or another
\* major notification replaces it; a minor notification is removed once its own
\* duration has elapsed and not before; the expiry of one kind leaves the other kind
C35_NotificationsExpireOnTheirOwn ==
    [][/\ \A major_elapsed, minor_elapsed \in BOOLEAN :
              UiNotifications(major_elapsed, minor_elapsed) =>
                  /\ (notification # None /\ ~major_elapsed) =>
                         notification' = notification
                  /\ (notification # None /\ major_elapsed) => notification' = None
                  /\ (minor_notification # None /\ minor_elapsed) =>
                         minor_notification' = None
                  /\ (minor_notification # None /\ ~minor_elapsed) =>
                         minor_notification' = minor_notification
       /\ (notification # None /\ notification' = None) =>
              \E minor_elapsed \in BOOLEAN : UiNotifications(TRUE, minor_elapsed)
       /\ (minor_notification # None /\ minor_notification' = None) =>
              \E major_elapsed \in BOOLEAN : UiNotifications(major_elapsed, TRUE)]_vars

=============================================================================
